---- MODULE Spec2Model ----
(***************************************************************************)
(* A model of mffpy: the blocked signal codec (BinWriter, HeaderBlock,     *)
(* RawBinFile), the epoch bookkeeping, the Writer with its target          *)
(* directory, and the FilePart cursor over an archive entry.               *)
(*                                                                         *)
(* Byte streams whose content is made of 4-byte items only (the signal     *)
(* streams) are sequences of 32-bit words; byte offsets are 4 * the word   *)
(* index.  Optional values (Python's None) are sequences of length 0 or 1. *)
(***************************************************************************)
EXTENDS Integers, Sequences, FiniteSets, TLC

\* ------------------------------------------------------------------ bounds
\* add_block calls that write to the stream of the BinWriter
MaxBlocks == 3
\* addbin calls on one Writer
MaxBins == 2
MaxPos == 7

\* ------------------------------------------------------------ input values
None == <<>>
Some(v) == <<v>>
IsNone(o) == Len(o) = 0
Val(o) == o[1]

\* the sampling rates a BinWriter is constructed with: one that makes no
\* block duration, a slow one, a usual one, one above 10^6 Hz, and 2^24
SamplingRates == {0, 3, 250, 2000000, 16777216}
DataTypes == {"EEG", "PNSData"}
DTypes == {"float32", "float64"}
Channels == {1, 2}
Samples == {0, 1, 2}
Fills == {100, 200}
Offsets == {None, Some(-1), Some(0), Some(100000)}

\* an array of shape (nc, ns); its element (c, s) is a 32-bit pattern
Arrays ==
    [dtype : {"float32"}, nc : Channels, ns : Samples, fill : Fills]
    \cup [dtype : {"float64"}, nc : {1}, ns : {1}, fill : {100}]
DataAt(d, c, s) == d.fill + 10 * c + s

Min(a, b) == IF a <= b THEN a ELSE b

\* Python's round of the non-negative quotient n / d: to the nearest
\* integer, a tie to the even one
Round(n, d) ==
    LET q == n \div d
        r == n % d
    IN  IF 2 * r < d THEN q
        ELSE IF 2 * r > d THEN q + 1
        ELSE IF q % 2 = 0 THEN q ELSE q + 1

RECURSIVE SumFrom(_, _, _)
SumFrom(s, i, j) == IF i > j THEN 0 ELSE s[i] + SumFrom(s, i + 1, j)
Abs(a) == IF a >= 0 THEN a ELSE -a
Last(s) == s[Len(s)]
Front(s) == SubSeq(s, 1, Len(s) - 1)

\* numpy's ndarray.tobytes of a C-ordered (nc, ns) array: row after row
tobytes(d) ==
    [k \in 1..(d.nc * d.ns) |-> DataAt(d, ((k - 1) \div d.ns) + 1, ((k - 1) % d.ns) + 1)]

\* Python's a // b
FloorDiv(a, b) == IF b > 0 THEN a \div b ELSE (-a) \div (-b)

\* Python's int(a / b): the quotient truncated towards zero
TruncDiv(a, b) ==
    IF (a >= 0) = (b > 0) THEN Abs(a) \div Abs(b) ELSE -(Abs(a) \div Abs(b))

\* --------------------------------------------------------------- variables
VARIABLES
    sampling_rate,  \* BinWriter._sr
    data_type,      \* BinWriter.data_type
    header,         \* BinWriter.header: None or Some(HeaderBlock)
    stream,         \* BinWriter.stream: the words written so far
    epochs,         \* BinWriter.epochs
    appended,       \* history: the blocks whose payload reached the stream
    writes,         \* history: add_block calls that wrote to the stream
    bw_last,        \* history: the last add_block call, its result, the state before it
    init_last,      \* history: the last BinWriter(...) call, its argument and its result
    compatible,     \* BinWriter._compatible
    fs,             \* the file system under the recording's base path
    writers,        \* the Writer objects
    w_last,         \* history: the last Writer operation, its result, the state before it
    fileparts,      \* the FilePart objects opened from the archive
    fp_last,        \* history: the last FilePart operation, its result, the state before it
    method,         \* the compression method of the entries of the archive at <base>.mfz
    directories,    \* the MFFDirectory / ZippedMFFDirectory objects, by extension
    dir_last,       \* history: the last container operation and its result
    block_samples,  \* signal_blocks['num_samples'] of the signal file a RawBinFile reads
    rs_last,        \* history: the last read_raw_samples call and its result
    blobs,          \* the BinFile objects the last access of Reader._blobs built, by Reader
    configured,     \* history: the unit and calibration last set on each Reader, by channel type
    xml_last,       \* history: the last document built, emitted and read back, and the result
    rb_last,        \* history: the last block read by _read_blocks, its bytes and the result
    sb_last,        \* history: the signal file last walked by signal_blocks and the catalog
    numpy_casting,  \* how the installed numpy casts a Python int that an int32 array cannot hold
    hb_last         \* history: the last header written and read back, and the results

bw_vars == <<sampling_rate, data_type, header, stream, epochs, appended, writes, bw_last,
            init_last>>
w_vars == <<compatible, fs, writers, w_last>>
fp_vars == <<fileparts, fp_last>>
rd_vars == <<method, directories, dir_last>>
rs_vars == <<block_samples, rs_last>>
un_vars == <<blobs, configured>>
xml_vars == <<xml_last>>
dec_vars == <<rb_last, sb_last, numpy_casting, hb_last>>

\* ------------------------------------------------------------- HeaderBlock
HEADER_BLOCK_PRESENT == 1

\* the header size without the word of the optional header's byte length
compute_byte_size_short(num_channels, opt_byte_size) ==
    4 * (4 + 2 * num_channels) + opt_byte_size

compute_byte_size(num_channels, opt_byte_size) ==
    4 * (5 + 2 * num_channels) + opt_byte_size

\* HeaderBlock.__new__ with the default optional header (byte_size 0)
HeaderBlock(block_size, num_channels, num_samples, rate, header_size) ==
    LET computed_size == compute_byte_size(num_channels, 0)
    IN  IF ~IsNone(header_size) /\ Val(header_size) # 0
           /\ Val(header_size) # computed_size
        THEN [ok |-> FALSE, error |-> "ValueError", hdr |-> None]
        ELSE [ok |-> TRUE, error |-> "",
              hdr |-> Some([header_size |-> computed_size,
                            block_size |-> block_size,
                            num_channels |-> num_channels,
                            num_samples |-> num_samples,
                            sampling_rate |-> rate])]

\* the Python int (high << 8) + low, 0 <= low < 256, of any size
PyInt(high, low) == [high |-> high, low |-> low]

encode_rate_depth(rate, depth) ==
    IF ~(depth < 256) \/ ~(rate < 16777216)
    THEN [ok |-> FALSE, val |-> PyInt(0, 0)]
    ELSE [ok |-> TRUE, val |-> PyInt(rate, depth)]

\* the value is one a 32-bit signed integer holds (-2^31 <= v < 2^31)
fits_int32(v) == -8388608 <= v.high /\ v.high < 8388608

\* the 32-bit words of a 64-bit integer 2^31 <= v < 2^32 in little-endian
\* order: the low word read as a signed integer, and the high word
int64_words(v) == <<(v.high - 16777216) * 256 + v.low, 0>>

RECURSIVE repeated(_, _)
repeated(words, n) == IF n = 0 THEN <<>> ELSE words \o repeated(words, n - 1)

\* (sr_d * np.ones(num_channels, dtype=np.int32)).tobytes(): an int32
\* array if sr_d fits; otherwise numpy raises OverflowError, or, where it
\* casts by value, promotes the array to int64 (8 bytes for each channel)
rate_depth_bytes(sr_d, num_channels) ==
    IF fits_int32(sr_d)
    THEN [ok |-> TRUE, error |-> "",
          words |-> repeated(<<sr_d.high * 256 + sr_d.low>>, num_channels)]
    ELSE IF numpy_casting = "strict"
    THEN [ok |-> FALSE, error |-> "OverflowError", words |-> <<>>]
    ELSE [ok |-> TRUE, error |-> "",
          words |-> repeated(int64_words(sr_d), num_channels)]

decode_rate_depth(x) == [rate |-> x \div 256, depth |-> x % 256]

\* NoOptHeaderBlock.write: the additional byte length, 0
NoOptHeaderBlock_write == <<0>>

\* the end of HeaderBlock.write: the rate and depth words and the optional
\* header, after the words written before them
written_rates(before, arr) ==
    IF ~arr.ok THEN [ok |-> FALSE, error |-> arr.error, words |-> before]
    ELSE [ok |-> TRUE, error |-> "",
          words |-> before \o arr.words \o NoOptHeaderBlock_write]

\* HeaderBlock.write: the words it writes to fp, up to the point where it
\* fails if it does
HeaderBlock_write(h) ==
    LET general == <<HEADER_BLOCK_PRESENT, h.header_size, h.block_size, h.num_channels>>
    IN  IF h.num_channels = 0
        THEN [ok |-> FALSE, error |-> "ZeroDivisionError", words |-> general]
        ELSE
        LET num_samples == (h.block_size \div h.num_channels) \div 4
            offsets == [c \in 1..h.num_channels |-> 4 * num_samples * (c - 1)]
            sr_d == encode_rate_depth(h.sampling_rate, 32)
        IN  IF ~sr_d.ok
            THEN [ok |-> FALSE, error |-> "AssertionError", words |-> general \o offsets]
            ELSE written_rates(general \o offsets,
                               rate_depth_bytes(sr_d.val, h.num_channels))

\* helpers.read(fp, 'i') at byte position pos of the words f
read_int(f, pos) == f[(pos \div 4) + 1]
can_read(f, pos, n) == pos >= 0 /\ pos + 4 * n <= 4 * Len(f)

NotRead(error) == [ok |-> FALSE, error |-> error, hdr |-> None, depth |-> 0]

\* optional_header_block.from_file at pos: the byte size of the block read
opt_from_file(f, pos) ==
    IF ~can_read(f, pos, 1) THEN [ok |-> FALSE, error |-> "struct.error", byte_size |-> 0]
    ELSE IF read_int(f, pos) = 0 THEN [ok |-> TRUE, error |-> "", byte_size |-> 0]
    ELSE IF ~can_read(f, pos + 4, 1)
    THEN [ok |-> FALSE, error |-> "struct.error", byte_size |-> 0]
    ELSE IF read_int(f, pos + 4) = 0 THEN [ok |-> TRUE, error |-> "", byte_size |-> 0]
    ELSE IF read_int(f, pos + 4) # 1
    THEN [ok |-> FALSE, error |-> "ValueError", byte_size |-> 0]
    ELSE IF ~can_read(f, pos + 8, 5)
    THEN [ok |-> FALSE, error |-> "struct.error", byte_size |-> 0]
    ELSE [ok |-> TRUE, error |-> "", byte_size |-> 24]

\* the end of HeaderBlock.from_file: the depth assert, the optional header
\* and the constructor's look at header_size
from_file_made(f, pos, header_size, block_size, num_channels, num_samples, rd) ==
    IF rd.depth # 32 THEN NotRead("AssertionError")
    ELSE
    LET optional_header == opt_from_file(f, pos)
    IN  IF ~optional_header.ok THEN NotRead(optional_header.error)
        ELSE IF header_size # 0
                /\ header_size # compute_byte_size(num_channels, optional_header.byte_size)
        THEN NotRead("ValueError")
        ELSE [ok |-> TRUE, error |-> "", depth |-> rd.depth,
              hdr |-> Some([header_size |-> compute_byte_size(num_channels,
                                                              optional_header.byte_size),
                            block_size |-> block_size,
                            num_channels |-> num_channels,
                            num_samples |-> num_samples,
                            sampling_rate |-> rd.rate])]

\* HeaderBlock.from_file on the words f, read from the start
HeaderBlock_from_file(f) ==
    IF ~can_read(f, 0, 1) THEN NotRead("struct.error")
    ELSE IF read_int(f, 0) = 0 THEN [ok |-> TRUE, error |-> "", hdr |-> None, depth |-> 0]
    ELSE IF ~can_read(f, 4, 3) THEN NotRead("struct.error")
    ELSE IF read_int(f, 12) = 0 THEN NotRead("ZeroDivisionError")
    ELSE IF ~can_read(f, 16 + 4 * read_int(f, 12), 1) THEN NotRead("struct.error")
    ELSE from_file_made(f, 16 + 8 * read_int(f, 12),
                        read_int(f, 4), read_int(f, 8), read_int(f, 12),
                        FloorDiv(FloorDiv(read_int(f, 8), read_int(f, 12)), 4),
                        decode_rate_depth(read_int(f, 16 + 4 * read_int(f, 12))))

\* ------------------------------------------------------------------- Epoch
Epoch(beginTime, endTime, firstBlock, lastBlock) ==
    [beginTime |-> beginTime, endTime |-> endTime,
     firstBlock |-> firstBlock, lastBlock |-> lastBlock]

\* add_block without `self.lastBlock += 1`
Epoch_add_block_same_last(e, duration) == [e EXCEPT !.endTime = @ + duration]

Epoch_add_block(e, duration) ==
    [e EXCEPT !.lastBlock = @ + 1, !.endTime = @ + duration]

\* ---------------------------------------------------------------- BinWriter
\* the first epoch of a writer: `offset_us or 0`
first_epoch(offset_us, duration_us) ==
    LET off == IF IsNone(offset_us) THEN 0 ELSE Val(offset_us)
    IN  Epoch(off, off + duration_us, 1, 1)

\* the new epoch placed at offset_us from the start of the recording
new_epoch_absolute(eps, offset_us, duration_us) ==
    LET beginTime == Val(offset_us)
        blockIdx == Last(eps).lastBlock + 1
    IN  Epoch(beginTime, beginTime + duration_us, blockIdx, blockIdx)

\* a new epoch after the epochs eps, offset_us after the end of the last one
new_epoch(eps, offset_us, duration_us) ==
    LET beginTime == Last(eps).endTime + Val(offset_us)
        blockIdx == Last(eps).lastBlock + 1
    IN  Epoch(beginTime, beginTime + duration_us, blockIdx, blockIdx)

\* `elif offset_us:` in place of the isinstance test
starts_new_epoch_if_truthy(offset_us) == ~IsNone(offset_us) /\ Val(offset_us) # 0

\* isinstance(offset_us, int): which calls start a new epoch
starts_new_epoch(offset_us) == ~IsNone(offset_us)

_add_block_to_epochs(eps, sr, num_samples, offset_us) ==
    IF sr = 0
    THEN [ok |-> FALSE, error |-> "ZeroDivisionError", epochs |-> eps]
    ELSE
    LET duration_us == TruncDiv(1000000 * num_samples, sr)
    IN  [ok |-> TRUE, error |-> "",
         epochs |->
            IF Len(eps) = 0
            THEN Append(eps, first_epoch(offset_us, duration_us))
            ELSE IF starts_new_epoch(offset_us)
            THEN Append(eps, new_epoch(eps, offset_us, duration_us))
            ELSE Append(Front(eps), Epoch_add_block(Last(eps), duration_us))]

\* `offset_us < -1` in place of `offset_us < 0`
offset_rejected_below_minus_one(offset_us) ==
    ~IsNone(offset_us) /\ Val(offset_us) # 0 /\ Val(offset_us) < -1

\* `if offset_us and offset_us < 0`
offset_rejected(offset_us) ==
    ~IsNone(offset_us) /\ Val(offset_us) # 0 /\ Val(offset_us) < 0

\* BinWriter.add_block(data, offset_us) on the writer's current state: the
\* result and the writer's fields when the call returns or raises
add_block(d, offset_us) ==
    LET same == [header |-> header, stream |-> stream, epochs |-> epochs,
                 did_append |-> FALSE]
    IN  IF offset_rejected(offset_us)
        THEN [result |-> "ValueError"] @@ same
        ELSE IF d.dtype # "float32"
        THEN [result |-> "AssertionError"] @@ same
        ELSE IF ~IsNone(header) /\ d.nc # Val(header).num_channels
        THEN [result |-> "AssertionError"] @@ same
        ELSE
        LET made == HeaderBlock(4 * (d.nc * d.ns), d.nc, d.ns, sampling_rate,
                                IF IsNone(header) THEN None
                                ELSE Some(Val(header).header_size))
        IN  IF ~made.ok
            THEN [result |-> made.error] @@ same
            ELSE
            LET wr == HeaderBlock_write(Val(made.hdr))
            IN  IF ~wr.ok
                THEN [result |-> wr.error, header |-> made.hdr,
                      stream |-> stream \o wr.words, epochs |-> epochs,
                      did_append |-> FALSE]
                ELSE
                LET written == stream \o wr.words \o tobytes(d)
                    ep == _add_block_to_epochs(epochs, sampling_rate, d.ns, offset_us)
                IN  [result |-> IF ep.ok THEN "ok" ELSE ep.error,
                     header |-> made.hdr, stream |-> written,
                     epochs |-> ep.epochs, did_append |-> TRUE]

NoCall == [op |-> "none", result |-> "ok", num_samples |-> 0,
           offset_us |-> None, header |-> None, stream |-> <<>>, epochs |-> <<>>]

\* a sampling_rate argument: an int, or a float of the same value
IntRate(v) == [int |-> TRUE, value |-> v]
FloatRate(v) == [int |-> FALSE, value |-> v]

\* the sampling_rate setter: assert isinstance(sr, int)
sampling_rate_rejected(sr) == ~sr.int

InitLast(sr, dt, result) == [op |-> "__init__", sampling_rate |-> sr,
                             data_type |-> dt, result |-> result]

InitBinWriter(rates, types) ==
    /\ sampling_rate \in rates
    /\ data_type \in types
    /\ header = None
    /\ stream = <<>>
    /\ epochs = <<>>
    /\ appended = <<>>
    /\ writes = 0
    /\ bw_last = NoCall
    /\ init_last = InitLast(IntRate(sampling_rate), data_type, "ok")

\* BinWriter(sampling_rate, data_type): the new object replaces the one the
\* caller held, unless the constructor raises
NewBinWriter(sr, dt) ==
    /\ init_last' = InitLast(sr, dt, IF sampling_rate_rejected(sr)
                                     THEN "AssertionError" ELSE "ok")
    /\ IF sampling_rate_rejected(sr)
       THEN UNCHANGED <<sampling_rate, data_type, header, stream, epochs,
                        appended, writes, bw_last>>
       ELSE /\ data_type' = dt
            /\ sampling_rate' = sr.value
            /\ header' = None
            /\ stream' = <<>>
            /\ epochs' = <<>>
            /\ appended' = <<>>
            /\ writes' = 0
            /\ bw_last' = NoCall
    /\ UNCHANGED <<w_vars, fp_vars, rd_vars, rs_vars, un_vars, xml_vars, dec_vars>>

AddBlock(d, offset_us) ==
    LET r == add_block(d, offset_us)
    IN  /\ writes < MaxBlocks
        /\ header' = r.header
        /\ stream' = r.stream
        /\ epochs' = r.epochs
        /\ appended' = IF r.did_append
                       THEN Append(appended, [num_samples |-> d.ns, num_channels |-> d.nc,
                                               payload |-> tobytes(d)])
                       ELSE appended
        /\ writes' = IF r.stream # stream \/ r.header # header THEN writes + 1 ELSE writes
        /\ bw_last' = [op |-> "add_block", result |-> r.result, num_samples |-> d.ns,
                       offset_us |-> offset_us, header |-> header,
                       stream |-> stream, epochs |-> epochs]
        /\ UNCHANGED <<sampling_rate, data_type, init_last>>
        /\ UNCHANGED <<compatible, fs, writers, w_last, fp_vars, rd_vars, rs_vars, un_vars, xml_vars, dec_vars>>

\* -------------------------------------------------------------- RawBinFile
\* struct.unpack of n 4-byte ints at byte position pos needs all their bytes
CanRead(f, pos, n) == pos >= 0 /\ pos % 4 = 0 /\ pos + 4 * n <= 4 * Len(f)
WordAt(f, pos) == f[(pos \div 4) + 1]

\* the words of the byte range of a DataBlock
BlockWords(f, block) ==
    SubSeq(f, (block.byte_offset \div 4) + 1,
           (block.byte_offset + block.byte_size) \div 4)

ReadFailed(error) == [ok |-> FALSE, error |-> error, pos |-> 0, hdr |-> None]

\* RawBinFile._read_header_block with the file pointer at pos, after the flag
_read_header_block(f, pos) ==
    IF ~CanRead(f, pos, 3) THEN ReadFailed("struct.error")
    ELSE
    LET header_size == WordAt(f, pos)
        block_size == WordAt(f, pos + 4)
        num_channels == WordAt(f, pos + 8)
    IN  IF num_channels = 0 THEN ReadFailed("ZeroDivisionError")
        ELSE
        LET num_samples == FloorDiv(FloorDiv(block_size, num_channels), 4)
            nc4 == 4 * num_channels
            at_rates == pos + 12 + nc4
        IN  IF at_rates < 0 THEN ReadFailed("OSError")
            ELSE IF ~CanRead(f, at_rates, 1) THEN ReadFailed("struct.error")
            ELSE
            LET sr_d == WordAt(f, at_rates)
                after_rates == at_rates + 4 + (nc4 - 4)
                depth == sr_d % 256
                rate == sr_d \div 256
                count == header_size - 4 * 4 - 2 * nc4
            IN  IF after_rates < 0 THEN ReadFailed("OSError")
                ELSE IF depth # 32 THEN ReadFailed("AssertionError")
                ELSE IF after_rates + count < 0 THEN ReadFailed("OSError")
                ELSE [ok |-> TRUE, error |-> "", pos |-> after_rates + count,
                      hdr |-> Some([header_size |-> header_size,
                                    block_size |-> block_size,
                                    num_samples |-> num_samples,
                                    num_channels |-> num_channels,
                                    sampling_rate |-> rate])]

WalkFailed(error) ==
    [ok |-> FALSE, error |-> error, data |-> <<>>, n_blocks |-> 0,
     num_samples |-> <<>>, num_channels |-> 0, header_sizes |-> <<>>,
     sampling_rate |-> 0]

NoBlocks ==
    [data |-> <<>>, num_samples |-> <<>>, num_channels |-> <<>>,
     header_sizes |-> <<>>, sampling_rate |-> <<>>]

\* a reuse-flagged block whose payload is taken to start at the flag
reused_header_at_flag(hdr, pos) ==
    [ok |-> ~IsNone(hdr), error |-> "AssertionError", pos |-> pos, hdr |-> hdr]

\* a block flagged 0 at byte position pos: `assert hdr is not None`, the
\* header stays that of the previous block, the payload follows the flag
reused_header(hdr, pos) ==
    [ok |-> ~IsNone(hdr), error |-> "AssertionError", pos |-> pos + 4, hdr |-> hdr]

\* the loop of RawBinFile.signal_blocks from byte position pos, hdr the
\* header of the previous block, acc the lists collected so far
RECURSIVE signal_blocks_from(_, _, _, _)
signal_blocks_from(f, pos, hdr, acc) ==
    IF pos >= 4 * Len(f)
    THEN \* the checks after the loop
         IF IsNone(hdr) THEN WalkFailed("AssertionError")
         ELSE IF \E i \in 1..Len(acc.num_channels) :
                    acc.num_channels[i] # acc.num_channels[1]
         THEN WalkFailed("AssertionError")
         ELSE IF \E i \in 1..Len(acc.sampling_rate) :
                    acc.sampling_rate[i] # acc.sampling_rate[1]
         THEN WalkFailed("AssertionError")
         ELSE IF Len(acc.num_samples) = 0 THEN WalkFailed("AssertionError")
         ELSE [ok |-> TRUE, error |-> "", data |-> acc.data,
               n_blocks |-> Len(acc.data), num_samples |-> acc.num_samples,
               num_channels |-> acc.num_channels[1],
               header_sizes |-> acc.header_sizes,
               sampling_rate |-> acc.sampling_rate[1]]
    ELSE IF ~CanRead(f, pos, 1) THEN WalkFailed("struct.error")
    ELSE
    LET flag == WordAt(f, pos)
        rh == IF flag # 0 THEN _read_header_block(f, pos + 4)
              ELSE reused_header(hdr, pos)
    IN  IF ~rh.ok THEN WalkFailed(rh.error)
        ELSE
        LET h == Val(rh.hdr)
            acc2 == [data |-> Append(acc.data, [byte_offset |-> rh.pos,
                                                byte_size |-> h.block_size]),
                     num_samples |-> Append(acc.num_samples, h.num_samples),
                     header_sizes |-> Append(acc.header_sizes, h.header_size),
                     num_channels |-> IF flag # 0
                                      THEN Append(acc.num_channels, h.num_channels)
                                      ELSE acc.num_channels,
                     sampling_rate |-> IF flag # 0
                                       THEN Append(acc.sampling_rate, h.sampling_rate)
                                       ELSE acc.sampling_rate]
        IN  IF rh.pos + h.block_size < 0 THEN WalkFailed("OSError")
            ELSE signal_blocks_from(f, rh.pos + h.block_size, rh.hdr, acc2)

\* RawBinFile.signal_blocks over the file f
signal_blocks(f) == signal_blocks_from(f, 0, None, NoBlocks)

\* ------------------------------------------------------------------ Writer
Writers == {1, 2}
Exts == {".mff", ".mfz", ".json", ".txt"}
BinNames == {None, Some("signal1.bin"), Some("signal2.bin")}

\* a file of a recording, registered with a Writer or on disk: an XML
\* document (doc, with the fields the model follows) or a bin stream (words)
File(name, kind, doc, recordTime, fileDataType, eps, words) ==
    [name |-> name, kind |-> kind, doc |-> doc, recordTime |-> recordTime,
     fileDataType |-> fileDataType, epochs |-> eps, words |-> words]

\* Writer.files[name] = content
Put(files, f) == {x \in files : x.name # f.name} \cup {f}

RECURSIVE PutAll(_, _)
PutAll(files, new) ==
    IF new = {} THEN files
    ELSE LET f == CHOOSE x \in new : TRUE
         IN  PutAll(Put(files, f), new \ {f})

Names(files) == {f.name : f \in files}

Absent == [exists |-> FALSE, files |-> {}]
EmptyDir == [exists |-> TRUE, files |-> {}]

\* a recording written earlier: a file-info document with recordTime 0
OldRecording ==
    [exists |-> TRUE,
     files |-> {File("info.xml", "xml", "fileInfo", 0, "", <<>>, <<>>)}]

\* os.path.exists of <base><ext>
exists(f, ext) ==
    CASE ext = ".mff" -> f.mff.exists
      [] ext = ".mfz" -> f.mfz.exists
      [] ext = ".json" -> f.json
      [] OTHER -> FALSE

NoWriter ==
    [made |-> FALSE, overwrite |-> FALSE, ext |-> "", files |-> {},
     num_bin_files |-> 0, file_created |-> FALSE]

\* the filename setter without the look at <base>.mff of an .mfz target
filename_accepted_target_only(f, ext, overwrite) ==
    /\ ext \in {".mff", ".mfz", ".json"}
    /\ ~overwrite => ~exists(f, ext)

\* Writer.filename setter: the asserts pass
filename_accepted(f, ext, overwrite) ==
    /\ ext \in {".mff", ".mfz", ".json"}
    /\ ~overwrite => (/\ ~exists(f, ext)
                      /\ ext = ".mfz" => ~exists(f, ".mff"))

\* a gate that looks at the data type alone
incompatible_type(filename, dt) ==
    compatible /\ dt \notin {"EEG", "PNSData"}

\* BinWriter.check_compatibility(filename) raises
incompatible(filename, dt) ==
    compatible /\ <<filename, dt>> \notin {<<"signal1.bin", "EEG">>, <<"signal2.bin", "PNSData">>}

\* '%i' % n for the one-digit counts of the model
FormatInt(n) == <<"1", "2", "3", "4", "5", "6", "7", "8", "9">>[n]

default_filename(n) == "signal" \o FormatInt(n) \o ".bin"
default_info_filename(n) == "info" \o FormatInt(n) \o ".xml"

\* Writer.addxml('fileInfo', recordTime=t)
addxml_fileInfo(wr, t) ==
    [wr EXCEPT !.files = Put(@, File("info.xml", "xml", "fileInfo", t, "", <<>>, <<>>))]

\* Writer.addbin(binfile, filename) for the BinWriter of the model: the
\* result and the Writer when the call returns or raises
addbin(wr, filename) ==
    LET n == wr.num_bin_files + 1
        counted == [wr EXCEPT !.num_bin_files = n]
        binname == IF IsNone(filename) THEN default_filename(n) ELSE Val(filename)
    IN  IF incompatible(binname, data_type)
        THEN [result |-> "ValueError", writer |-> counted]
        ELSE
        LET infoname == default_info_filename(n)
            with_bin == Put(wr.files, File(binname, "bin", "", 0, "", <<>>, <<>>))
            with_info == Put(with_bin,
                             File(infoname, "xml", "dataInfo", 0, data_type, <<>>, <<>>))
            with_epochs == IF n = 1
                           THEN Put(with_info,
                                    File("epochs.xml", "xml", "epochs", 0, "", epochs, <<>>))
                           ELSE with_info
        IN  [result |-> "ok", writer |-> [counted EXCEPT !.files = with_epochs]]

\* create_directory that keeps an existing directory (makedirs exist_ok)
create_directory_keeping(wr, f) ==
    IF wr.file_created THEN [result |-> "ok", writer |-> wr, fs |-> f]
    ELSE [result |-> "ok", writer |-> [wr EXCEPT !.file_created = TRUE],
          fs |-> IF f.mff.exists THEN f ELSE [f EXCEPT !.mff = EmptyDir]]

\* Writer.create_directory
create_directory(wr, f) ==
    IF wr.file_created THEN [result |-> "ok", writer |-> wr, fs |-> f]
    ELSE
    LET cleared == IF wr.overwrite /\ f.mff.exists
                   THEN [f EXCEPT !.mff = Absent] ELSE f
    IN  IF cleared.mff.exists
        THEN [result |-> "FileExistsError", writer |-> wr, fs |-> cleared]
        ELSE [result |-> "ok", writer |-> [wr EXCEPT !.file_created = TRUE],
              fs |-> [cleared EXCEPT !.mff = EmptyDir]]

\* what content.write puts on disk for a registered file: the document, or
\* the bytes the BinWriter's stream holds at that time
OnDisk(f) == IF f.kind = "bin" THEN [f EXCEPT !.words = stream] ELSE f

\* bin/mff2mfz.py on the directory: refuses an existing archive
mff2mfz(f) ==
    IF f.mfz.exists
    THEN [result |-> "CalledProcessError", fs |-> f]
    ELSE [result |-> "ok", fs |-> [f EXCEPT !.mfz = [exists |-> TRUE, files |-> f.mff.files]]]

\* Writer.write
write(wr, f) ==
    LET cd == create_directory(wr, f)
    IN  IF cd.result # "ok" THEN cd
        ELSE IF wr.files # {} /\ ~cd.fs.mff.exists
        THEN [result |-> "FileNotFoundError", writer |-> cd.writer, fs |-> cd.fs]
        ELSE
        LET written == IF wr.files = {} THEN cd.fs
                       ELSE [cd.fs EXCEPT !.mff.files =
                                PutAll(@, {OnDisk(x) : x \in wr.files})]
        IN  IF wr.ext # ".mfz"
            THEN [result |-> "ok", writer |-> cd.writer, fs |-> written]
            ELSE
            LET removed == IF wr.overwrite /\ written.mfz.exists
                           THEN [written EXCEPT !.mfz = Absent] ELSE written
                packed == mff2mfz(removed)
            IN  [result |-> packed.result, writer |-> cd.writer, fs |-> packed.fs]

WLast(op, w, result, ext, overwrite, dt) ==
    [op |-> op, w |-> w, result |-> result, ext |-> ext, overwrite |-> overwrite,
     data_type |-> dt, filename |-> None, fs |-> fs, writer |-> writers[w],
     compatible |-> compatible]

InitWriter(filesystems) ==
    /\ compatible = TRUE
    /\ fs \in filesystems
    /\ writers = [w \in Writers |-> NoWriter]
    /\ w_last = [op |-> "none", w |-> 1, result |-> "ok", ext |-> "",
                 overwrite |-> FALSE, data_type |-> "", filename |-> None,
                 fs |-> fs, writer |-> NoWriter, compatible |-> TRUE]

\* Writer(<base><ext>, overwrite)
NewWriter(w, ext, overwrite) ==
    /\ ~writers[w].made
    /\ IF filename_accepted(fs, ext, overwrite)
       THEN /\ writers' = [writers EXCEPT ![w] =
                            [NoWriter EXCEPT !.made = TRUE, !.overwrite = overwrite,
                                             !.ext = ext]]
            /\ w_last' = WLast("Writer", w, "ok", ext, overwrite, "")
       ELSE /\ writers' = writers
            /\ w_last' = WLast("Writer", w, "AssertionError", ext, overwrite, "")
    /\ UNCHANGED <<compatible, fs>>
    /\ UNCHANGED <<bw_vars, fp_vars, rd_vars, rs_vars, un_vars, xml_vars, dec_vars>>

AddXml(w, t) ==
    /\ writers[w].made
    /\ writers' = [writers EXCEPT ![w] = addxml_fileInfo(@, t)]
    /\ w_last' = WLast("addxml", w, "ok", writers[w].ext, writers[w].overwrite, "")
    /\ UNCHANGED <<compatible, fs>>
    /\ UNCHANGED <<bw_vars, fp_vars, rd_vars, rs_vars, un_vars, xml_vars, dec_vars>>

AddBin(w, filename, max_bins) ==
    /\ writers[w].made
    /\ writers[w].num_bin_files < max_bins
    /\ LET r == addbin(writers[w], filename)
       IN  /\ writers' = [writers EXCEPT ![w] = r.writer]
           /\ w_last' = [WLast("addbin", w, r.result, writers[w].ext,
                               writers[w].overwrite, data_type)
                         EXCEPT !.filename = filename]
    /\ UNCHANGED <<compatible, fs>>
    /\ UNCHANGED <<bw_vars, fp_vars, rd_vars, rs_vars, un_vars, xml_vars, dec_vars>>

CreateDirectory(w) ==
    /\ writers[w].made
    /\ LET r == create_directory(writers[w], fs)
       IN  /\ writers' = [writers EXCEPT ![w] = r.writer]
           /\ fs' = r.fs
           /\ w_last' = WLast("create_directory", w, r.result, writers[w].ext,
                              writers[w].overwrite, "")
    /\ UNCHANGED compatible
    /\ UNCHANGED <<bw_vars, fp_vars, rd_vars, rs_vars, un_vars, xml_vars, dec_vars>>

Write(w) ==
    /\ writers[w].made
    /\ LET r == write(writers[w], fs)
       IN  /\ writers' = [writers EXCEPT ![w] = r.writer]
           /\ fs' = r.fs
           /\ w_last' = WLast("write", w, r.result, writers[w].ext,
                              writers[w].overwrite, "")
    /\ UNCHANGED compatible
    /\ UNCHANGED <<bw_vars, fp_vars, rd_vars, rs_vars, un_vars, xml_vars, dec_vars>>

\* BinWriter._compatible = v
SetCompatible(v) ==
    /\ compatible # v
    /\ compatible' = v
    /\ w_last' = [WLast("set_compatible", 1, "ok", "", FALSE, "") EXCEPT !.compatible = v]
    /\ UNCHANGED <<fs, writers>>
    /\ UNCHANGED <<bw_vars, fp_vars, rd_vars, rs_vars, un_vars, xml_vars, dec_vars>>

\* StreamingBinWriter(sampling_rate, mffdir, data_type) on the directory
NewStreamingBinWriter(dt) ==
    /\ IF incompatible(default_filename(1), dt)
       THEN /\ fs' = fs
            /\ w_last' = WLast("StreamingBinWriter", 1, "ValueError", "", FALSE, dt)
       ELSE IF ~fs.mff.exists
       THEN /\ fs' = fs
            /\ w_last' = WLast("StreamingBinWriter", 1, "FileNotFoundError", "", FALSE, dt)
       ELSE /\ fs' = [fs EXCEPT !.mff.files =
                        Put(@, File(default_filename(1), "bin", "", 0, "", <<>>, <<>>))]
            /\ w_last' = WLast("StreamingBinWriter", 1, "ok", "", FALSE, dt)
    /\ UNCHANGED <<compatible, writers>>
    /\ UNCHANGED <<bw_vars, fp_vars, rd_vars, rs_vars, un_vars, xml_vars, dec_vars>>

\* ---------------------------------------------------------------- FilePart
\* the bytes of the archive file: entry data between local headers
ArchiveSize == 7
Archive == [i \in 1..ArchiveSize |-> 10 + i]

\* the byte ranges [start, end) of the stored entries (ZipFile.open)
Entries == {[start |-> 1, end |-> 3], [start |-> 4, end |-> 6]}
FileParts == {1, 2}
Whences == {0, 1, 2, 3}
SeekPositions == {-3, -1, 0, 1, 2}
ReadSizes == {-2, -1, 1, 5}

\* the underlying file object's read(k): k = -1 reads to the end of the
\* file, a smaller k is refused, a read at or past the end returns nothing
fp_read(pos, k) ==
    IF k < -1 THEN [ok |-> FALSE, data |-> <<>>]
    ELSE LET last == IF k = -1 THEN ArchiveSize ELSE Min(pos + k, ArchiveSize)
         IN  [ok |-> TRUE, data |-> [i \in 1..(IF last > pos THEN last - pos ELSE 0)
                                        |-> Archive[pos + i]]]

\* FilePart.read(n)
FilePart_read(part, n) ==
    LET nmax == part.end - part.pos
        m == Min(n, nmax)
        r == IF m >= 0 THEN fp_read(part.pos, m) ELSE fp_read(part.pos, nmax)
    IN  IF r.ok THEN [result |-> "ok", data |-> r.data, pos |-> part.pos + Len(r.data)]
        ELSE [result |-> "ValueError", data |-> <<>>, pos |-> part.pos]

\* FilePart.tell()
FilePart_tell(part) == part.pos - part.start

\* a seek from the end that counts from the end of the archive file
seek_target_archive_end(part, pos, whence) ==
    IF whence = 0 THEN part.start + pos
    ELSE IF whence = 1 THEN part.pos + pos
    ELSE ArchiveSize + pos

\* the absolute position FilePart.seek hands to the underlying file
seek_target(part, pos, whence) ==
    IF whence = 0 THEN part.start + pos
    ELSE IF whence = 1 THEN part.pos + pos
    ELSE part.end + pos

\* FilePart.seek(pos, whence): the underlying file refuses a negative
\* absolute position and leaves its cursor where it was
FilePart_seek(part, pos, whence) ==
    IF whence \notin {0, 1, 2} THEN [result |-> "ValueError", pos |-> part.pos]
    ELSE IF seek_target(part, pos, whence) < 0
         THEN [result |-> "OSError", pos |-> part.pos]
         ELSE [result |-> "ok", pos |-> seek_target(part, pos, whence)]

NoFilePart == [made |-> FALSE, start |-> 0, end |-> 0, pos |-> 0, closed |-> TRUE]

\* a FilePart that reads through the file object of the ZipFile
file_object_of_archive(p) == 1

\* self.fp = open(filename, 'rb'): the file object a FilePart reads
\* through is its own
file_object(p) == p

\* a FilePart as its methods see it: its range, and the cursor and the
\* closed flag of its file object
Cursor(p) ==
    [fileparts[p] EXCEPT !.pos = fileparts[file_object(p)].pos,
                         !.closed = fileparts[file_object(p)].closed]

FPLast(op, p, result, n, whence, data) ==
    [op |-> op, p |-> p, result |-> result, n |-> n, whence |-> whence,
     data |-> data, part |-> Cursor(p), parts |-> [q \in FileParts |-> Cursor(q)]]

InitFilePart ==
    /\ fileparts = [p \in FileParts |-> NoFilePart]
    /\ fp_last = [op |-> "", p |-> 1, result |-> "", n |-> 0, whence |-> 0,
                  data |-> <<>>, part |-> NoFilePart,
                  parts |-> [q \in FileParts |-> NoFilePart]]

\* ZipFile.open(filename) and FilePart.__init__
Open(p, entry) ==
    /\ LET opened == [fileparts EXCEPT ![p] = [@ EXCEPT !.made = TRUE,
                                                        !.start = entry.start,
                                                        !.end = entry.end]]
       IN  fileparts' = [opened EXCEPT
                            ![file_object(p)].pos =
                                FilePart_seek([NoFilePart EXCEPT !.start = entry.start,
                                                                 !.end = entry.end],
                                              0, 0).pos,
                            ![file_object(p)].closed = FALSE]
    /\ fp_last' = FPLast("open", p, "ok", 0, 0, <<>>)
    /\ UNCHANGED <<bw_vars, w_vars, rd_vars, rs_vars, un_vars, xml_vars, dec_vars>>

\* FilePart.seek(pos, whence); a closed file refuses a seek of a valid whence
Seek(p, pos, whence, max_pos) ==
    /\ fileparts[p].made
    /\ LET r == IF Cursor(p).closed /\ whence \in {0, 1, 2}
                THEN [result |-> "closed", pos |-> Cursor(p).pos]
                ELSE FilePart_seek(Cursor(p), pos, whence)
       IN  /\ r.pos <= max_pos
           /\ fileparts' = [fileparts EXCEPT ![file_object(p)].pos = r.pos]
           /\ fp_last' = FPLast("seek", p, r.result, pos, whence, <<>>)
    /\ UNCHANGED <<bw_vars, w_vars, rd_vars, rs_vars, un_vars, xml_vars, dec_vars>>

\* FilePart.read(n); a closed file refuses to tell its position
Read(p, n) ==
    /\ fileparts[p].made
    /\ LET r == IF Cursor(p).closed
                THEN [result |-> "closed", data |-> <<>>, pos |-> Cursor(p).pos]
                ELSE FilePart_read(Cursor(p), n)
       IN  /\ fileparts' = [fileparts EXCEPT ![file_object(p)].pos = r.pos]
           /\ fp_last' = FPLast("read", p, r.result, n, 0, r.data)
    /\ UNCHANGED <<bw_vars, w_vars, rd_vars, rs_vars, un_vars, xml_vars, dec_vars>>

\* FilePart.close()
Close(p) ==
    /\ fileparts[p].made
    /\ fileparts' = [fileparts EXCEPT ![file_object(p)].closed = TRUE]
    /\ fp_last' = FPLast("close", p, "ok", 0, 0, <<>>)
    /\ UNCHANGED <<bw_vars, w_vars, rd_vars, rs_vars, un_vars, xml_vars, dec_vars>>

\* ------------------------------------- MFFDirectory / ZippedMFFDirectory
Kinds == {"mff", "mfz"}
CompressionMethods == {0, 8}

\* os.path.splitext of the file names of a recording, and the number that
\* re.compile(r'\d+').search finds in the base
SplitNames ==
    [name \in {default_filename(n) : n \in 1..9}
              \cup {default_info_filename(n) : n \in 1..9}
              \cup {"info.xml", "epochs.xml", "categories.xml"} |->
        IF \E n \in 1..9 : name = default_filename(n)
        THEN LET n == CHOOSE n \in 1..9 : name = default_filename(n)
             IN  [base |-> "signal" \o FormatInt(n), ext |-> ".bin", num |-> Some(n)]
        ELSE IF \E n \in 1..9 : name = default_info_filename(n)
        THEN LET n == CHOOSE n \in 1..9 : name = default_info_filename(n)
             IN  [base |-> "info" \o FormatInt(n), ext |-> ".xml", num |-> Some(n)]
        ELSE CASE name = "info.xml" -> [base |-> "info", ext |-> ".xml", num |-> None]
               [] name = "epochs.xml" -> [base |-> "epochs", ext |-> ".xml", num |-> None]
               [] name = "categories.xml" ->
                    [base |-> "categories", ext |-> ".xml", num |-> None]]

NameParts(name) == SplitNames[name]

\* the orders in which a listing can name the files: the model takes
\* two of them, one the reverse of the other
NameOrder ==
    <<"categories.xml", "epochs.xml", "info.xml", "info1.xml", "info2.xml",
      "signal1.bin", "signal2.bin">>
Reverse(s) == [i \in 1..Len(s) |-> s[Len(s) + 1 - i]]
InNameOrder(name, names) == name \in names
Listings(names) ==
    LET listing == SelectSeq(NameOrder, LAMBDA name : InNameOrder(name, names))
    IN  {listing, Reverse(listing)}

\* the places of a sequence that hold the first occurrence of their key
FirstPlaces(keys) ==
    SelectSeq([i \in 1..Len(keys) |-> i],
              LAMBDA i : \A j \in 1..(i - 1) : keys[j] # keys[i])

\* MFFDirBase._find_files_by_type: the extensions in the order in which the
\* listing first shows them (the key order of files_by_type)
files_by_type_keys(listing) ==
    LET exts == [i \in 1..Len(listing) |-> NameParts(listing[i]).ext]
        firsts == FirstPlaces(exts)
    IN  [k \in 1..Len(firsts) |-> exts[firsts[k]]]

\* files_by_type[ext]: the bases of that extension in listing order
files_by_type(listing, ext) ==
    LET names == SelectSeq(listing, LAMBDA name : NameParts(name).ext = ext)
    IN  [i \in 1..Len(names) |-> NameParts(names[i]).base]

InSeq(x, s) == \E i \in DOMAIN s : s[i] = x

\* the keys of files_by_type whose list holds the base name
keys_listing(listing, keys, basename) ==
    {i \in DOMAIN keys : InSeq(basename, files_by_type(listing, keys[i]))}

\* the end of the loop over files_by_type.items()
filename_found(kind, keys, hits, basename) ==
    IF hits = {}
    THEN [result |-> IF kind = "mff" THEN "FileNotFoundError" ELSE "ValueError",
          name |-> ""]
    ELSE [result |-> "ok",
          name |-> basename \o keys[CHOOSE i \in hits : \A j \in hits : i <= j]]

\* MFFDirectory.filename / ZippedMFFDirectory.filename: the name under the
\* first extension of files_by_type that lists the base name
directory_filename(kind, listing, basename) ==
    filename_found(kind, files_by_type_keys(listing),
                   keys_listing(listing, files_by_type_keys(listing), basename),
                   basename)

\* the first result that is not "ok", if there is one
first_failure(checked) ==
    IF \A i \in DOMAIN checked : checked[i] = "ok" THEN "ok"
    ELSE checked[CHOOSE i \in DOMAIN checked :
                    /\ checked[i] # "ok"
                    /\ \A j \in 1..(i - 1) : checked[j] = "ok"]

\* MFFDirBase._check: every signal<N>.bin has its info<N>.xml
_check(kind, listing, bins) ==
    first_failure([i \in 1..Len(bins) |->
                        IF IsNone(NameParts(bins[i] \o ".bin").num) THEN "AssertionError"
                        ELSE directory_filename(
                                kind, listing,
                                "info" \o FormatInt(Val(NameParts(bins[i] \o ".bin").num))
                             ).result])

\* zipfile.ZipFile(filename, 'r'): the compression attribute is the
\* constructor's argument, left at its default
ZIP_STORED == 0
ZipFile_compression(entry_method) == ZIP_STORED

\* mffpy's ZipFile.__init__: the assert on the compression attribute
ZipFile_init(entry_method) ==
    IF ZipFile_compression(entry_method) = 0 THEN "ok" ELSE "AssertionError"

NoDirectory == [made |-> FALSE, kind |-> "", listing |-> <<>>]

\* get_directory after the constructor's steps: exists, ZipFile.__init__,
\* _check
directory_made(present, kind, listing, init, checked) ==
    IF ~present THEN [result |-> "AssertionError", directory |-> NoDirectory]
    ELSE IF init # "ok" THEN [result |-> init, directory |-> NoDirectory]
    ELSE IF checked # "ok" THEN [result |-> checked, directory |-> NoDirectory]
    ELSE [result |-> "ok",
          directory |-> [made |-> TRUE, kind |-> kind, listing |-> listing]]

\* get_directory(<base>.<kind>) with the files in the order of listing
get_directory(f, kind, listing) ==
    directory_made(f[kind].exists, kind, listing,
                   IF kind = "mfz" THEN ZipFile_init(method) ELSE "ok",
                   _check(kind, listing, files_by_type(listing, ".bin")))

\* the bytes a read() of the whole entry returns: those of the file on
\* disk, or the file_size bytes at the entry's offset in the archive,
\* which are the file's bytes when the entry is stored with method 0
Bytes(file, entry_method) == [file |-> file, method |-> entry_method]

FileNamed(files, name) == CHOOSE x \in files : x.name = name

\* open(self.filename(basename)).read()
read_named(f, d, fn) ==
    IF fn.result # "ok" THEN [result |-> fn.result, data |-> None]
    ELSE [result |-> "ok",
          data |-> Some(Bytes(FileNamed(f[d.kind].files, fn.name),
                              IF d.kind = "mfz" THEN method ELSE 0))]

\* a read that starts at the first entry of the archive whatever the name
filepointer_read_first(f, d, basename) ==
    read_named(f, d, IF d.kind = "mfz"
                     THEN [result |-> "ok", name |-> d.listing[1]]
                     ELSE directory_filename(d.kind, d.listing, basename))

\* filepointer(basename).read()
filepointer_read(f, d, basename) ==
    read_named(f, d, directory_filename(d.kind, d.listing, basename))

\* MFFDirBase.signals_with_info: a pair for every .bin file, in listing order
signals_with_info_of(f, d, bins) ==
    [i \in 1..Len(bins) |->
        [signal |-> filepointer_read(f, d, bins[i]).data,
         info |-> "info" \o FormatInt(Val(NameParts(bins[i] \o ".bin").num))]]

signals_with_info(f, d) == signals_with_info_of(f, d, files_by_type(d.listing, ".bin"))

DirLast(op, kind, result, basename, value) ==
    [op |-> op, kind |-> kind, result |-> result, basename |-> basename,
     value |-> value]

InitDirectories ==
    /\ method = 0
    /\ directories = [k \in Kinds |-> NoDirectory]
    /\ dir_last = DirLast("", "", "", "", <<>>)

\* get_directory(filename)
GetDirectory(kind, listing) ==
    /\ listing \in Listings(Names(fs[kind].files))
    /\ LET r == get_directory(fs, kind, listing)
       IN  /\ directories' = [directories EXCEPT ![kind] = r.directory]
           /\ dir_last' = DirLast("get_directory", kind, r.result, "", listing)
    /\ UNCHANGED <<bw_vars, w_vars, fp_vars, rs_vars, un_vars, xml_vars, dec_vars, method>>

\* listdir(): os.listdir names the files in any order, namelist in the
\* order of the archive
Listdir(kind, listing) ==
    /\ directories[kind].made
    /\ IF kind = "mff" THEN listing \in Listings(Names(fs[kind].files))
       ELSE listing = directories[kind].listing
    /\ dir_last' = DirLast("listdir", kind, "ok", "", listing)
    /\ UNCHANGED <<bw_vars, w_vars, fp_vars, rs_vars, un_vars, xml_vars, dec_vars, method, directories>>

\* filepointer(basename).read()
Filepointer(kind, basename) ==
    /\ directories[kind].made
    /\ LET r == filepointer_read(fs, directories[kind], basename)
       IN  dir_last' = DirLast("filepointer", kind, r.result, basename, r.data)
    /\ UNCHANGED <<bw_vars, w_vars, fp_vars, rs_vars, un_vars, xml_vars, dec_vars, method, directories>>

\* signals_with_info(), each signal read()
SignalsWithInfo(kind) ==
    /\ directories[kind].made
    /\ dir_last' = DirLast("signals_with_info", kind, "ok", "",
                           signals_with_info(fs, directories[kind]))
    /\ UNCHANGED <<bw_vars, w_vars, fp_vars, rs_vars, un_vars, xml_vars, dec_vars, method, directories>>

\* ----------------------------------------------- Epochs / Categories
\* XML.from_file on the bytes of an entry: the document, if the bytes are
\* those of the file
from_file(bytes) ==
    IF bytes.method # 0 THEN [result |-> "ParseError", doc |-> "", content |-> <<>>]
    ELSE [result |-> "ok", doc |-> bytes.file.doc, content |-> bytes.file.epochs]

\* Epochs.epochs: the parsed epochs, each named "epoch"
parse_epochs(content) == [i \in DOMAIN content |-> [name |-> "epoch", epoch |-> content[i]]]

\* Categories.categories: dict(name -> segments) of the <cat> elements; a
\* repeated name keeps its first place and takes the last segments
parse_categories(cats) ==
    LET names == [i \in 1..Len(cats) |-> cats[i].name]
        firsts == FirstPlaces(names)
    IN  [k \in 1..Len(firsts) |->
            cats[CHOOSE i \in 1..Len(cats) :
                    /\ names[i] = names[firsts[k]]
                    /\ \A j \in (i + 1)..Len(cats) : names[j] # names[i]]]

\* the {category, t0} entries of sort_categories_by_starttime before
\* sorting, from the i-th category on
RECURSIVE category_blocks_from(_, _)
category_blocks_from(categories, i) ==
    IF i > Len(categories) THEN <<>>
    ELSE [k \in 1..Len(categories[i].segments) |->
            [category |-> categories[i].name, t0 |-> categories[i].segments[k]]]
         \o category_blocks_from(categories, i + 1)

category_blocks(categories) == category_blocks_from(categories, 1)

\* the entries left in the order of the document
sort_by_t0_unsorted(blocks) == blocks

\* list.sort(key=t0): ascending, entries of equal t0 in their old order
sort_by_t0(blocks) ==
    LET n == Len(blocks)
        place(i) == Cardinality({j \in 1..n : blocks[j].t0 < blocks[i].t0})
                    + Cardinality({j \in 1..i : blocks[j].t0 = blocks[i].t0})
    IN  [k \in 1..n |-> blocks[CHOOSE i \in 1..n : place(i) = k]]

\* Categories.sort_categories_by_starttime
sort_categories_by_starttime(categories) == sort_by_t0(category_blocks(categories))

\* the loop of associate_categories over the sorted entries
named_by(eps, sorted_categories) ==
    IF Len(sorted_categories) = Len(eps)
    THEN [i \in DOMAIN eps |-> [eps[i] EXCEPT !.name = sorted_categories[i].category]]
    ELSE eps

\* Epochs.associate_categories
associate_categories(eps, categories) ==
    named_by(eps, sort_categories_by_starttime(categories))

\* the exceptions `except (ValueError, AssertionError)` catches
caught(result) == result \in {"ValueError", "AssertionError"}

\* Reader.categories, from the opened file on
categories_from(fp) ==
    IF fp.result # "ok" THEN [result |-> fp.result, categories |-> <<>>]
    ELSE IF from_file(Val(fp.data)).result # "ok"
    THEN [result |-> from_file(Val(fp.data)).result, categories |-> <<>>]
    ELSE IF from_file(Val(fp.data)).doc # "categories"
    THEN [result |-> "AssertionError", categories |-> <<>>]
    ELSE [result |-> "ok",
          categories |-> parse_categories(from_file(Val(fp.data)).content)]

\* Reader.categories
Reader_categories(f, d) == categories_from(filepointer_read(f, d, "categories"))

\* Reader.epochs, from the parsed epochs.xml on
epochs_from(xml, categories) ==
    IF xml.result # "ok" THEN [result |-> xml.result, epochs |-> <<>>]
    ELSE IF xml.doc # "epochs" THEN [result |-> "AssertionError", epochs |-> <<>>]
    ELSE IF categories.result = "ok"
    THEN [result |-> "ok",
          epochs |-> associate_categories(parse_epochs(xml.content),
                                          categories.categories)]
    ELSE IF caught(categories.result)
    THEN [result |-> "ok", epochs |-> parse_epochs(xml.content)]
    ELSE [result |-> categories.result, epochs |-> <<>>]

\* XML.from_file(filepointer(basename))
read_xml(fp) ==
    IF fp.result # "ok" THEN [result |-> fp.result, doc |-> "", content |-> <<>>]
    ELSE from_file(Val(fp.data))

\* Reader.epochs
Reader_epochs(f, d) ==
    epochs_from(read_xml(filepointer_read(f, d, "epochs")), Reader_categories(f, d))

\* Reader(filename).epochs on the container of that kind
ReaderEpochs(kind) ==
    /\ directories[kind].made
    /\ LET r == Reader_epochs(fs, directories[kind])
       IN  dir_last' = DirLast("epochs", kind, r.result, "", r.epochs)
    /\ UNCHANGED <<bw_vars, w_vars, fp_vars, rs_vars, un_vars, xml_vars, dec_vars, method, directories>>

\* ------------------------------------------- Reader: units and calibration
\* BinFile as section 4.4 of the specification describes it: the unit is
\* one of V, mV, uV and uV by default; the calibration named GCAL is loaded
\* by default when the data-info has it, otherwise the vector of ones
BinFile_units == {"V", "mV", "uV"}

info_calibrations(info) ==
    IF info.fileDataType = "EEG" THEN {"GCAL", "ICAL"} ELSE {}

BinFile(signal, info, signal_type) ==
    [signal_type |-> signal_type, signal |-> signal, unit |-> "uV",
     calibrations |-> info_calibrations(info),
     calibration |-> IF "GCAL" \in info_calibrations(info) THEN "GCAL" ELSE "ones"]

BinFile_set_unit(bf, unit) ==
    IF unit \in BinFile_units THEN [result |-> "ok", bf |-> [bf EXCEPT !.unit = unit]]
    ELSE [result |-> "ValueError", bf |-> bf]

BinFile_set_calibration(bf, cal) ==
    IF cal \in bf.calibrations
    THEN [result |-> "ok", bf |-> [bf EXCEPT !.calibration = cal]]
    ELSE [result |-> "ValueError", bf |-> bf]

\* the loop body of Reader._blobs: read the info document and make the BinFile
blob_from(signal, fp) ==
    IF fp.result # "ok" THEN [result |-> fp.result, bf |-> <<>>]
    ELSE IF from_file(Val(fp.data)).result # "ok"
    THEN [result |-> from_file(Val(fp.data)).result, bf |-> <<>>]
    ELSE [result |-> "ok",
          bf |-> BinFile(signal, Val(fp.data).file, Val(fp.data).file.fileDataType)]

\* __blobs[bf.signal_type] = bf for each pair in turn: a later BinFile of
\* the same signal type replaces an earlier one
blobs_from(built) ==
    IF \E i \in 1..Len(built) : built[i].result # "ok"
    THEN [result |-> built[CHOOSE i \in 1..Len(built) :
                                /\ built[i].result # "ok"
                                /\ \A j \in 1..(i - 1) : built[j].result = "ok"].result,
          built |-> FALSE, blobs |-> {}]
    ELSE [result |-> "ok", built |-> TRUE,
          blobs |-> {built[i].bf : i \in {k \in 1..Len(built) :
                        \A j \in (k + 1)..Len(built) :
                            built[j].bf.signal_type # built[k].bf.signal_type}}]

blobs_of(f, d, sis) ==
    blobs_from([i \in 1..Len(sis) |->
                    blob_from(sis[i].signal, filepointer_read(f, d, sis[i].info))])

\* Reader._blobs as a cached property: built at the first access only
_blobs_cached(f, d, cached) ==
    IF cached.built THEN [cached EXCEPT !.result = "ok"]
    ELSE blobs_of(f, d, signals_with_info(f, d))

\* Reader._blobs: a property, evaluated anew at every access
_blobs(f, d, cached) == blobs_of(f, d, signals_with_info(f, d))

HasType(bs, channel_type) == \E x \in bs : x.signal_type = channel_type
OfType(bs, channel_type) == CHOOSE x \in bs : x.signal_type = channel_type

\* self._blobs[channel_type].<attribute> = value, given the setter's outcome
blobs_set(b, channel_type, set) ==
    IF set.result # "ok" THEN [b EXCEPT !.result = set.result]
    ELSE [b EXCEPT !.blobs = {x \in b.blobs : x.signal_type # channel_type} \cup {set.bf}]

set_unit_in(b, channel_type, unit) ==
    IF b.result # "ok" THEN b
    ELSE IF ~HasType(b.blobs, channel_type) THEN [b EXCEPT !.result = "KeyError"]
    ELSE blobs_set(b, channel_type, BinFile_set_unit(OfType(b.blobs, channel_type), unit))

set_calibration_in(b, channel_type, cal) ==
    IF b.result # "ok" THEN b
    ELSE IF ~HasType(b.blobs, channel_type) THEN [b EXCEPT !.result = "KeyError"]
    ELSE blobs_set(b, channel_type,
                   BinFile_set_calibration(OfType(b.blobs, channel_type), cal))

\* Reader.set_unit, Reader.set_calibration
set_unit(f, d, cached, channel_type, unit) ==
    set_unit_in(_blobs(f, d, cached), channel_type, unit)
set_calibration(f, d, cached, channel_type, cal) ==
    set_calibration_in(_blobs(f, d, cached), channel_type, cal)

\* Reader.units: {type: bin_file.unit}
units_of(b) ==
    [result |-> b.result, value |-> {<<x.signal_type, x.unit>> : x \in b.blobs},
     blobs |-> b]
units(f, d, cached) == units_of(_blobs(f, d, cached))

\* Reader.get_physical_samples: each channel type is served by its BinFile,
\* which scales by the unit and the calibration it holds
served_by(b) ==
    [result |-> b.result,
     value |-> {[signal_type |-> x.signal_type, unit |-> x.unit,
                 calibration |-> x.calibration] : x \in b.blobs},
     blobs |-> b]
get_physical_samples(f, d, cached) == served_by(_blobs(f, d, cached))

NoBlobs == [result |-> "none", built |-> FALSE, blobs |-> {}]
NotConfigured == [unit |-> None, calibration |-> None]

InitBlobs ==
    /\ blobs = [k \in Kinds |-> NoBlobs]
    /\ configured = [k \in Kinds |-> [t \in DataTypes |-> NotConfigured]]

SetUnitDone(kind, channel_type, unit, r) ==
    /\ blobs' = [blobs EXCEPT ![kind] = r]
    /\ configured' = IF r.result = "ok"
                     THEN [configured EXCEPT ![kind][channel_type].unit = Some(unit)]
                     ELSE configured
    /\ dir_last' = DirLast("set_unit", kind, r.result, channel_type, unit)
    /\ UNCHANGED <<bw_vars, w_vars, fp_vars, rs_vars, xml_vars, dec_vars, method, directories>>

SetUnit(kind, channel_type, unit) ==
    /\ directories[kind].made
    /\ SetUnitDone(kind, channel_type, unit,
                   set_unit(fs, directories[kind], blobs[kind], channel_type, unit))

SetCalibrationDone(kind, channel_type, cal, r) ==
    /\ blobs' = [blobs EXCEPT ![kind] = r]
    /\ configured' = IF r.result = "ok"
                     THEN [configured EXCEPT ![kind][channel_type].calibration = Some(cal)]
                     ELSE configured
    /\ dir_last' = DirLast("set_calibration", kind, r.result, channel_type, cal)
    /\ UNCHANGED <<bw_vars, w_vars, fp_vars, rs_vars, xml_vars, dec_vars, method, directories>>

SetCalibration(kind, channel_type, cal) ==
    /\ directories[kind].made
    /\ SetCalibrationDone(kind, channel_type, cal,
                          set_calibration(fs, directories[kind], blobs[kind],
                                          channel_type, cal))

Answered(op, kind, r) ==
    /\ blobs' = [blobs EXCEPT ![kind] = r.blobs]
    /\ dir_last' = DirLast(op, kind, r.result, "", r.value)
    /\ UNCHANGED configured
    /\ UNCHANGED <<bw_vars, w_vars, fp_vars, rs_vars, xml_vars, dec_vars, method, directories>>

Units(kind) ==
    /\ directories[kind].made
    /\ Answered("units", kind, units(fs, directories[kind], blobs[kind]))

GetPhysicalSamples(kind) ==
    /\ directories[kind].made
    /\ Answered("get_physical_samples", kind,
                get_physical_samples(fs, directories[kind], blobs[kind]))

\* ------------------------------------------------------- dict2xml and XML
\* A Python value of a content tree: a str, a dict (its items in order) or
\* a list
TEXT == "text"
ATTR == "attributes"
PyStr(x) == [t |-> "str", v |-> x]
\* the text of a str: its characters, or what a formatting wrote
Chars(x) == [chars |-> x]
PyDict(items) == [t |-> "dict", v |-> items]
PyList(elements) == [t |-> "list", v |-> elements]
Item(k, v) == [k |-> k, v |-> v]

HasKey(items, key) == \E i \in 1..Len(items) : items[i].k = key
\* content.pop(key, default)
Pop(items, key, default) ==
    IF HasKey(items, key)
    THEN items[CHOOSE i \in 1..Len(items) : items[i].k = key].v
    ELSE default

\* an ET.Element; raised marks the AttributeError of dict2el and add2el
Element(tag, attrs, text, children, raised) ==
    [tag |-> tag, attrs |-> attrs, text |-> text, children |-> children,
     raised |-> raised]

RECURSIVE SubElement(_, _, _)
RECURSIVE dict2el(_, _)
RECURSIVE add2el(_, _)
RECURSIVE add_items(_, _)
RECURSIVE add_list(_, _, _)

\* dict2el after the two pops: only the attributes and the text of the
\* dict are used, its other keys are not looked at
SubElement(tag, attrs, text) ==
    IF text.t = "str" THEN Element(tag, attrs.v, text.v, <<>>, FALSE)
    ELSE IF text.t = "dict" THEN Element(tag, attrs.v, Chars(""), add_items(text.v, 1), FALSE)
    ELSE Element(tag, attrs.v, Chars(""), <<>>, TRUE)

dict2el(tag, content) ==
    SubElement(tag, Pop(content, ATTR, PyDict(<<>>)), Pop(content, TEXT, PyStr(Chars(""))))

add_list(tag, elements, i) ==
    IF i > Len(elements) THEN <<>>
    ELSE <<dict2el(tag, elements[i].v)>> \o add_list(tag, elements, i + 1)

add2el(tag, content) ==
    IF content.t = "dict" THEN <<dict2el(tag, content.v)>>
    ELSE IF content.t = "list" THEN add_list(tag, content.v, 1)
    ELSE <<Element(tag, <<>>, Chars(""), <<>>, TRUE)>>

\* for subtag, inside in text.items(): add2el(subtag, inside, subel)
add_items(items, i) ==
    IF i > Len(items) THEN <<>>
    ELSE add2el(items[i].k, items[i].v) \o add_items(items, i + 1)

RECURSIVE Raised(_)
Raised(el) == el.raised \/ \E i \in 1..Len(el.children) : Raised(el.children[i])

\* dict2xml(content, rootname, namespace): the root element
dict2xml(content, rootname, namespace) ==
    Element(rootname, <<Item("xmlns", namespace)>>, Chars(""), add_items(content, 1), FALSE)

\* ElementTree.write followed by ET.parse: every tag comes back qualified
\* by the default namespace, an empty text comes back as None
RECURSIVE reparsed(_, _)
reparsed(el, namespace) ==
    [tag |-> <<namespace, el.tag>>,
     attrs |-> el.attrs,
     text |-> IF el.text = Chars("") THEN None ELSE Some(el.text),
     children |-> [i \in 1..Len(el.children) |-> reparsed(el.children[i], namespace)]]

\* XML.find(tag, root): the first child of root with that tag, or None
find(xmlns, tag, root) ==
    IF \E i \in 1..Len(root.children) : root.children[i].tag = <<xmlns, tag>>
    THEN Some(root.children[CHOOSE i \in 1..Len(root.children) :
                    /\ root.children[i].tag = <<xmlns, tag>>
                    /\ \A j \in 1..(i - 1) : root.children[j].tag # <<xmlns, tag>>])
    ELSE None

\* the registered document kinds: namespace, root tag, and whether the
\* class defines content()
XMLKinds ==
    [fileInfo |-> [xmlns |-> "http://www.egi.com/info_mff", content |-> TRUE],
     dataInfo |-> [xmlns |-> "http://www.egi.com/info_n_mff", content |-> TRUE],
     patient |-> [xmlns |-> "http://www.egi.com/subject_mff", content |-> TRUE],
     sensorLayout |-> [xmlns |-> "http://www.egi.com/sensorLayout_mff", content |-> FALSE],
     coordinates |-> [xmlns |-> "http://www.egi.com/coordinates_mff", content |-> FALSE],
     epochs |-> [xmlns |-> "http://www.egi.com/epochs_mff", content |-> TRUE],
     dipoleSet |-> [xmlns |-> "http://www.egi.com/dipoleSet_mff", content |-> FALSE]]

\* a datetime: the local time and the UTC offset in minutes, None if naive
DateTime(local, utcoffset) == [local |-> local, utcoffset |-> utcoffset]

\* dt.strftime("%Y-%m-%dT%H:%M:%S.%f%z") with a colon put before the last
\* two characters
_dump_datetime(dt) ==
    [stamp |-> dt.local,
     sign |-> IF Val(dt.utcoffset) < 0 THEN "-" ELSE "+",
     hh |-> Abs(Val(dt.utcoffset)) \div 60,
     mm |-> Abs(Val(dt.utcoffset)) % 60,
     colons |-> 3]

\* the last colon is dropped when there are three, then strptime
_parse_time_str(txt) ==
    DateTime(txt.stamp, Some((IF txt.sign = "-" THEN -1 ELSE 1) * (60 * txt.hh + txt.mm)))

\* str(n) and int(text) for n >= 0: the decimal digits
RECURSIVE digits_of(_)
digits_of(n) == IF n < 10 THEN <<n>> ELSE Append(digits_of(n \div 10), n % 10)
RECURSIVE number_of(_)
number_of(digits) ==
    IF Len(digits) = 0 THEN 0 ELSE 10 * number_of(Front(digits)) + Last(digits)
str(n) == [digits |-> digits_of(n)]
int(txt) == number_of(txt.digits)

Built(content) == [result |-> "ok", content |-> content]
NotBuilt(result) == [result |-> result, content |-> <<>>]

FileInfo_content(recordTime, mffVersion) ==
    IF mffVersion # "3" THEN NotBuilt("AssertionError")
    ELSE IF IsNone(recordTime.utcoffset) THEN NotBuilt("AssertionError")
    ELSE Built(<<Item("mffVersion", PyDict(<<Item(TEXT, PyStr(Chars(mffVersion)))>>)),
                 Item("recordTime",
                      PyDict(<<Item(TEXT, PyStr(_dump_datetime(recordTime)))>>))>>)

Patient_content(name, data, dataType) ==
    Built(<<Item("fields", PyDict(<<
        Item("field", PyList(<<PyDict(<<
            Item(TEXT, PyDict(<<
                Item("name", PyDict(<<Item(TEXT, PyStr(Chars(name)))>>)),
                Item("data", PyDict(<<Item(TEXT, PyStr(Chars(data))),
                                      Item(ATTR, PyDict(<<Item("dataType", dataType)>>))>>))
            >>))>>)>>))>>))>>)

filter_content(f) ==
    PyDict(<<Item("beginTime", PyDict(<<Item(TEXT, PyStr(Chars(f.beginTime)))>>)),
             Item("method", PyDict(<<Item(TEXT, PyStr(Chars(f.method)))>>)),
             Item("type", PyDict(<<Item(TEXT, PyStr(Chars(f.type)))>>)),
             Item("cutoffFrequency",
                  PyDict(<<Item(TEXT, PyStr(Chars(f.cutoffFrequency))),
                           Item(ATTR, PyDict(<<Item("units", "Hz")>>))>>))>>)

\* DataInfo.content without calibrations
DataInfo_content(fileDataType, dataTypeProps, filters) ==
    Built(<<Item("generalInformation", PyDict(<<
                Item(TEXT, PyDict(<<
                    Item("fileDataType", PyDict(<<
                        Item(TEXT, PyDict(<<
                            Item(fileDataType, PyDict(<<
                                Item(TEXT, PyDict([i \in 1..Len(dataTypeProps) |->
                                    Item(dataTypeProps[i].k,
                                         PyDict(<<Item(TEXT, PyStr(Chars(dataTypeProps[i].v)))>>))]))
                            >>))>>))>>))>>))>>)),
            Item("filters", PyDict(<<
                Item("filter", PyList([i \in 1..Len(filters) |-> filter_content(filters[i])]))
            >>)),
            Item("calibrations", PyDict(<<Item("calibration", PyList(<<>>))>>))>>)

\* Epoch.content
Epoch_content(e) ==
    PyDict(<<Item(TEXT, PyDict(<<
        Item("beginTime", PyDict(<<Item(TEXT, PyStr(str(e.beginTime)))>>)),
        Item("endTime", PyDict(<<Item(TEXT, PyStr(str(e.endTime)))>>)),
        Item("firstBlock", PyDict(<<Item(TEXT, PyStr(str(e.firstBlock)))>>)),
        Item("lastBlock", PyDict(<<Item(TEXT, PyStr(str(e.lastBlock)))>>))>>))>>)

Epochs_content(eps) ==
    Built(<<Item("epoch", PyList([i \in 1..Len(eps) |-> Epoch_content(eps[i])]))>>)

\* T.content(**kwargs) of the class registered for the root tag
content_of(D) ==
    IF ~XMLKinds[D.kind].content THEN NotBuilt("NotImplementedError")
    ELSE IF D.kind = "fileInfo" THEN FileInfo_content(D.recordTime, D.mffVersion)
    ELSE IF D.kind = "patient" THEN Patient_content(D.name, D.data, "string")
    ELSE IF D.kind = "dataInfo"
    THEN DataInfo_content(D.fileDataType, D.dataTypeProps, D.filters)
    ELSE Epochs_content(D.epochs)

\* XMLType.todict
todict(D) ==
    [content |-> content_of(D), rootname |-> D.kind, namespace |-> XMLKinds[D.kind].xmlns]

\* root = root or self.root: an element without children is false
root_or(root, self_root) ==
    IF IsNone(root) THEN self_root
    ELSE IF Len(Val(root).children) = 0 THEN self_root
    ELSE Val(root)

Parsed(kind, fields) == [result |-> "ok", kind |-> kind, fields |-> fields]
NotParsed(result) == [result |-> result, kind |-> "", fields |-> <<>>]

\* FileInfo.get_content
recordTime_of(el) == IF IsNone(el) THEN None ELSE Some(_parse_time_str(Val(Val(el).text)))
version_of(el) == IF IsNone(el) THEN None ELSE Val(el).text
FileInfo_get_content(xmlns, root) ==
    Parsed("fileInfo",
           [mffVersion |-> version_of(find(xmlns, "mffVersion", root)),
            recordTime |-> recordTime_of(find(xmlns, "recordTime", root))])

\* Patient.fields: a field for every child of <fields>
Patient_field(xmlns, root, field) ==
    <<Val(find(xmlns, "name", root_or(Some(field), root))).text,
      Val(find(xmlns, "data", root_or(Some(field), root))).text>>
Patient_fields(xmlns, root, fields) ==
    IF IsNone(fields) THEN NotParsed("TypeError")
    ELSE IF \E i \in 1..Len(Val(fields).children) :
                Val(fields).children[i].tag # <<xmlns, "field">>
    THEN NotParsed("AssertionError")
    ELSE Parsed("patient",
                {Patient_field(xmlns, root, Val(fields).children[i]) :
                    i \in 1..Len(Val(fields).children)})
Patient_get_content(xmlns, root) == Patient_fields(xmlns, root, find(xmlns, "fields", root))

\* DataInfo.generalInformation, DataInfo.filters
_parse_filter(xmlns, root, f) ==
    [beginTime |-> Val(find(xmlns, "beginTime", root_or(Some(f), root))).text,
     method |-> Val(find(xmlns, "method", root_or(Some(f), root))).text,
     type |-> Val(find(xmlns, "type", root_or(Some(f), root))).text,
     cutoffFrequency |->
        Val(find(xmlns, "cutoffFrequency", root_or(Some(f), root))).text]
DataInfo_filters(xmlns, root, filters) ==
    IF IsNone(filters) THEN <<>>
    ELSE [i \in 1..Len(Val(filters).children) |->
            _parse_filter(xmlns, root, Val(filters).children[i])]
generalInformation_of(el) ==
    [channel_type |-> el.tag[2],
     props |-> [i \in 1..Len(el.children) |->
                    Item(el.children[i].tag[2], el.children[i].text)]]
DataInfo_fields(xmlns, root, el) ==
    IF IsNone(el) THEN NotParsed("TypeError")
    ELSE IF Len(Val(el).children) = 0 THEN NotParsed("IndexError")
    ELSE Parsed("dataInfo",
                [generalInformation |-> generalInformation_of(Val(el).children[1]),
                 filters |-> DataInfo_filters(xmlns, root, find(xmlns, "filters", root))])
DataInfo_get_content(xmlns, root) ==
    DataInfo_fields(xmlns, root,
        find(xmlns, "fileDataType",
             root_or(find(xmlns, "generalInformation", root), root)))

\* Epochs.epochs: an Epoch for every child of the root
_parse_epoch(el) ==
    [i \in 1..Len(el.children) |-> Item(el.children[i].tag[2], int(Val(el.children[i].text)))]
Epochs_get_content(xmlns, root) ==
    IF \E i \in 1..Len(root.children) : root.children[i].tag # <<xmlns, "epoch">>
    THEN NotParsed("AssertionError")
    ELSE Parsed("epochs", [i \in 1..Len(root.children) |-> _parse_epoch(root.children[i])])

\* XMLType.from_file: the class registered for the root's qualified tag,
\* and the typed fields it reads
XML_from_file(root) ==
    IF \A k \in DOMAIN XMLKinds : root.tag # <<XMLKinds[k].xmlns, k>>
    THEN NotParsed("KeyError")
    ELSE IF root.tag[2] = "fileInfo" THEN FileInfo_get_content(root.tag[1], root)
    ELSE IF root.tag[2] = "patient" THEN Patient_get_content(root.tag[1], root)
    ELSE IF root.tag[2] = "dataInfo" THEN DataInfo_get_content(root.tag[1], root)
    ELSE IF root.tag[2] = "epochs" THEN Epochs_get_content(root.tag[1], root)
    ELSE Parsed(root.tag[2], <<>>)

\* emit and parse: dict2xml(**todict(...)), written out and read back
emitted(built, root) ==
    IF Raised(root) THEN NotParsed("AttributeError")
    ELSE XML_from_file(reparsed(root, built.namespace))
parse_emit_of(built) ==
    IF built.content.result # "ok" THEN NotParsed(built.content.result)
    ELSE emitted(built, dict2xml(built.content.content, built.rootname, built.namespace))
parse_emit(D) == parse_emit_of(todict(D))

Document(D) == [op |-> "call", input |-> D, result |-> "", kind |-> "", fields |-> <<>>]

InitXML(documents) == xml_last \in {Document(D) : D \in documents}

RoundTripDone(r) ==
    /\ xml_last.op = "call"
    /\ xml_last' = [xml_last EXCEPT !.op = "parse_emit", !.result = r.result,
                                    !.kind = r.kind, !.fields = r.fields]
    /\ UNCHANGED <<bw_vars, w_vars, fp_vars, rd_vars, rs_vars, un_vars, dec_vars>>

RoundTrip == RoundTripDone(parse_emit(xml_last.input))

\* --------------------------------------------- RawBinFile.read_raw_samples
\* Times are counted in half sample intervals, so that t * sr is a whole
\* number of samples or falls exactly between two.
Halves == 2

\* np.round(t * sr) with a tie rounded up
sample_index_half_up(t) == (2 * t + Halves) \div (2 * Halves)

\* np.round(t * sr).astype(int) for a time t >= 0
sample_index(t) == Round(t, Halves)

\* np.cumsum([0] + num_samples); entry k of the array is at position k + 1
block_start_idx(num_samples) ==
    [k \in 1..(Len(num_samples) + 1) |-> SumFrom(num_samples, 1, k - 1)]

\* s[start:stop] of a Python sequence, 0 <= start, 0 <= stop
Slice(s, start, stop) == SubSeq(s, start + 1, Min(stop, Len(s)))

\* ndarray.searchsorted: the number of entries below v (side = 'left') or
\* not above v (side = 'right') of a sorted array
searchsorted(s, v, side) ==
    Cardinality({i \in 1..Len(s) : IF side = "right" THEN s[i] <= v ELSE s[i] < v})

\* the columns of block i (0-based), each named by its block and its place
read_block(num_samples, i) == [j \in 1..num_samples[i + 1] |-> <<i, j - 1>>]

RECURSIVE concatenate(_, _, _)
concatenate(num_samples, A, B) ==
    IF A >= B THEN <<>>
    ELSE read_block(num_samples, A) \o concatenate(num_samples, A + 1, B)

\* np.concatenate of an empty list raises ValueError
_read_blocks(num_samples, A, B) ==
    IF A >= B THEN [result |-> "ValueError", data |-> <<>>]
    ELSE [result |-> "ok", data |-> concatenate(num_samples, A, B)]

\* the place a Python slice bound stands for in a sequence of length n
slice_bound(i, n) == IF i < 0 THEN (IF i + n < 0 THEN 0 ELSE i + n) ELSE Min(i, n)

\* block_data[:, a:b]; b may be None
columns(data, a, b) ==
    SubSeq(data, slice_bound(a, Len(data)) + 1,
           IF IsNone(b) THEN Len(data) ELSE slice_bound(Val(b), Len(data)))

cut(block_data, a, b) ==
    IF block_data.result # "ok" THEN block_data
    ELSE [result |-> "ok", data |-> columns(block_data.data, a, b)]

\* read_at without `A += block_slice.start; B += block_slice.start`
read_at_unshifted(num_samples, a, b, start, shift, A, B) ==
    cut(_read_blocks(num_samples, A, B), a - shift,
        IF IsNone(b) THEN None ELSE Some(Val(b) - shift))

read_at(num_samples, a, b, start, shift, A, B) ==
    cut(_read_blocks(num_samples, A + start, B + start), a - shift,
        IF IsNone(b) THEN None ELSE Some(Val(b) - shift))

read_between(num_samples, a, b, start, bsi, A, B) ==
    read_at(num_samples, a, b, start, bsi[A + 1] - bsi[1], A, B)

read_enclosed(num_samples, a, b, start, bsi) ==
    read_between(num_samples, a, b, start, bsi,
                 searchsorted(bsi, bsi[1] + a, "right") - 1,
                 IF IsNone(b) THEN Len(bsi) ELSE searchsorted(bsi, bsi[1] + Val(b), "left"))

read_in_slice(num_samples, a, b, block_slice) ==
    read_enclosed(num_samples, a, b, block_slice.start,
                  Slice(block_start_idx(num_samples), block_slice.start, block_slice.stop))

\* time_of_first_sample = a / sr, in half sample intervals
time_of_first_sample(a) == Halves * a

\* `return block_data, time_of_first_sample`, if block_data was obtained
returned(start_time, block_data) ==
    [time_of_first_sample |-> IF block_data.result = "ok" THEN start_time ELSE 0]
        @@ block_data

\* RawBinFile.read_raw_samples(t0, dt, block_slice); dt and block_slice may
\* be None
read_raw_samples(num_samples, t0, dt, block_slice) ==
    returned(time_of_first_sample(sample_index(t0)),
             read_in_slice(num_samples, sample_index(t0),
                           IF IsNone(dt) THEN None ELSE Some(sample_index(t0 + Val(dt))),
                           IF IsNone(block_slice)
                           THEN [start |-> 0, stop |-> Len(num_samples)]
                           ELSE Val(block_slice)))

\* a call of read_raw_samples that has not run yet
Call(t0, dt, block_slice) ==
    [op |-> "call", result |-> "", t0 |-> t0, dt |-> dt,
     block_slice |-> block_slice, data |-> <<>>, time_of_first_sample |-> 0]

\* the slices Epoch.block_slice yields over a file of n blocks, or None
BlockSlices(n) ==
    {None} \cup {Some([start |-> p[1], stop |-> p[2]]) :
                    p \in {q \in (0..(n - 1)) \X (1..n) : q[1] < q[2]}}

InitRawBinFile(files, times, durations) ==
    /\ block_samples \in files
    /\ rs_last \in {Call(t0, dt, block_slice) :
                        t0 \in times, dt \in durations,
                        block_slice \in BlockSlices(Len(block_samples))}

ReadSamples(r) ==
    /\ rs_last.op = "call"
    /\ rs_last' = [rs_last EXCEPT !.op = "read_raw_samples",
                                  !.result = r.result, !.data = r.data,
                                  !.time_of_first_sample = r.time_of_first_sample]
    /\ UNCHANGED block_samples
    /\ UNCHANGED <<bw_vars, w_vars, fp_vars, rd_vars, un_vars, xml_vars, dec_vars>>

ReadRawSamples ==
    ReadSamples(read_raw_samples(block_samples, rs_last.t0, rs_last.dt,
                                 rs_last.block_slice))

\* ------------------------------------------------- RawBinFile._read_blocks
\* the bytes of a buffer, each named by its place
Buffer(n) == [k \in 1..n |-> k]

\* HeaderBlock.num_samples of a header read from the file:
\* (block_size // num_channels) // 4
header_num_samples(block_size, num_channels) == (block_size \div num_channels) \div 4

\* np.frombuffer(buf, '<f4', count=-1): one float for every four bytes;
\* a buffer whose size is no multiple of four raises ValueError
np_frombuffer(buf) ==
    IF Len(buf) % 4 # 0
    THEN [result |-> "ValueError", data |-> <<>>]
    ELSE [result |-> "ok",
          data |-> [k \in 1..(Len(buf) \div 4) |-> SubSeq(buf, 4 * k - 3, 4 * k)]]

\* ndarray.reshape(num_channels, -1, order='C') of a flat array: the rows,
\* or ValueError when the size is no multiple of num_channels
reshape(data, num_channels) ==
    IF Len(data) % num_channels # 0
    THEN [result |-> "ValueError", data |-> <<>>]
    ELSE LET n == Len(data) \div num_channels
         IN  [result |-> "ok",
              data |-> [c \in 1..num_channels |-> SubSeq(data, (c - 1) * n + 1, c * n)]]

\* read_block of _read_blocks on the bytes file.read(block.byte_size)
\* returned; no warning is ever issued
read_block_of(buf, num_channels) ==
    LET flat == np_frombuffer(buf)
    IN  IF flat.result # "ok"
        THEN [result |-> flat.result, warned |-> FALSE, data |-> <<>>]
        ELSE [warned |-> FALSE] @@ reshape(flat.data, num_channels)

\* a block of byte_size bytes in a file that ends `short` bytes early
BlockRead(num_channels, byte_size, short) ==
    [op |-> "call", num_channels |-> num_channels, byte_size |-> byte_size,
     num_samples |-> header_num_samples(byte_size, num_channels),
     buf |-> Buffer(byte_size - short),
     result |-> "", warned |-> FALSE, data |-> <<>>]

InitReadBlock(channels, sizes, shorts) ==
    rb_last \in {BlockRead(c, n, k) : c \in channels, n \in sizes, k \in shorts}

ReadBlockDone(r) ==
    /\ rb_last.op = "call"
    /\ rb_last' = [rb_last EXCEPT !.op = "read_block", !.result = r.result,
                                  !.warned = r.warned, !.data = r.data]
    /\ UNCHANGED <<bw_vars, w_vars, fp_vars, rd_vars, rs_vars, un_vars, xml_vars, sb_last, numpy_casting, hb_last>>

ReadBlock == ReadBlockDone(read_block_of(rb_last.buf, rb_last.num_channels))

\* ------------------------------------------- signal files with reused headers
\* A signal file is described by the sample counts of its blocks; 0 stands
\* for a block flagged 0, which reuses the header of the block before it.
ReusedSamples == 0

\* the sample count of block i: that of the most recent header, or 1 for
\* a reuse-flagged block that no header precedes
RECURSIVE samples_of(_, _)
samples_of(blocks, i) ==
    IF i = 0 THEN 1
    ELSE IF blocks[i] # ReusedSamples THEN blocks[i]
    ELSE samples_of(blocks, i - 1)

\* the payload of block i: words that name the block and their place
payload_of(blocks, nc, i) ==
    [k \in 1..(nc * samples_of(blocks, i)) |-> 100 * i + k]

\* the words of block i: flag and header, or the flag 0 alone, then payload
block_words(blocks, nc, rate, i) ==
    IF blocks[i] # ReusedSamples
    THEN HeaderBlock_write(Val(HeaderBlock(4 * (nc * blocks[i]), nc, blocks[i],
                                           rate, None).hdr)).words
         \o payload_of(blocks, nc, i)
    ELSE <<0>> \o payload_of(blocks, nc, i)

\* the words of the blocks i.. of the file
RECURSIVE file_words(_, _, _, _)
file_words(blocks, nc, rate, i) ==
    IF i > Len(blocks) THEN <<>>
    ELSE block_words(blocks, nc, rate, i) \o file_words(blocks, nc, rate, i + 1)

SignalFileOf(blocks, nc, rate) ==
    [op |-> "call", blocks |-> blocks, num_channels |-> nc, rate |-> rate,
     words |-> file_words(blocks, nc, rate, 1), catalog |-> WalkFailed("")]

InitSignalBlocks(files, channels, rates) ==
    sb_last \in {SignalFileOf(blocks, nc, rate) :
                    blocks \in files, nc \in channels, rate \in rates}

WalkDone(catalog) ==
    /\ sb_last.op = "call"
    /\ sb_last' = [sb_last EXCEPT !.op = "signal_blocks", !.catalog = catalog]
    /\ UNCHANGED <<bw_vars, w_vars, fp_vars, rd_vars, rs_vars, un_vars, xml_vars, rb_last, numpy_casting, hb_last>>

SignalBlocks == WalkDone(signal_blocks(sb_last.words))

\* ------------------------------------------- a header written and read back
\* numpy 1.x casts by value, numpy 2.x raises
NumpyCastings == {"value_based", "strict"}

\* the header of a block of num_samples samples on num_channels channels
HeaderCall(rate, num_channels, num_samples) ==
    [op |-> "call", rate |-> rate, num_channels |-> num_channels,
     num_samples |-> num_samples,
     written |-> [ok |-> FALSE, error |-> "", words |-> <<>>],
     from_file |-> NotRead(""), indexed |-> ReadFailed("")]

InitHeaders(castings, rates, channels, samples) ==
    /\ numpy_casting \in castings
    /\ hb_last \in {HeaderCall(r, nc, ns) : r \in rates, nc \in channels, ns \in samples}

\* HeaderBlock(...).write(fp), then HeaderBlock.from_file and
\* RawBinFile._read_header_block on the bytes written
header_round_trip(h) ==
    LET made == HeaderBlock(4 * (h.num_channels * h.num_samples), h.num_channels,
                            h.num_samples, h.rate, None)
        written == HeaderBlock_write(Val(made.hdr))
    IN  [written |-> written,
         from_file |-> IF written.ok THEN HeaderBlock_from_file(written.words)
                       ELSE NotRead(""),
         indexed |-> IF written.ok THEN _read_header_block(written.words, 4)
                     ELSE ReadFailed("")]

HeaderRoundTripDone(r) ==
    /\ hb_last.op = "call"
    /\ hb_last' = [hb_last EXCEPT !.op = "round_trip", !.written = r.written,
                                  !.from_file = r.from_file, !.indexed = r.indexed]
    /\ UNCHANGED <<bw_vars, w_vars, fp_vars, rd_vars, rs_vars, un_vars, xml_vars,
                   rb_last, sb_last, numpy_casting>>

HeaderRoundTrip == HeaderRoundTripDone(header_round_trip(hb_last))

vars == <<bw_vars, w_vars, fp_vars, rd_vars, rs_vars, un_vars, xml_vars, dec_vars>>

NoFiles == [mff |-> Absent, mfz |-> Absent, json |-> FALSE]

\* the file systems a Writer may find: nothing, an earlier recording as a
\* directory, as an archive, as both, or an exported .json
Filesystems ==
    {NoFiles,
     [mff |-> OldRecording, mfz |-> Absent, json |-> FALSE],
     [mff |-> Absent, mfz |-> OldRecording, json |-> FALSE],
     [mff |-> OldRecording, mfz |-> OldRecording, json |-> FALSE],
     [mff |-> Absent, mfz |-> Absent, json |-> TRUE]}

\* one BinWriter and the blocks added to it
Init ==
    /\ InitBinWriter(SamplingRates, {"EEG"})
    /\ InitWriter({NoFiles})
    /\ InitFilePart
    /\ InitRawBinFile({<<1>>}, {0}, {None})
    /\ InitDirectories
    /\ InitBlobs
    /\ InitXML({[kind |-> "epochs", epochs |-> <<>>]})
    /\ InitReadBlock({1}, {4}, {0})
    /\ InitHeaders({"value_based"}, {250}, {1}, {1})
    /\ InitSignalBlocks({<<1>>}, {1}, {250})

Next == \E d \in Arrays, offset_us \in Offsets : AddBlock(d, offset_us)

Spec == Init /\ [][Next]_vars

\* two Writers on one target, each with its own file-info document
InitWriters ==
    /\ InitBinWriter({250}, {"EEG"})
    /\ InitWriter(Filesystems)
    /\ InitFilePart
    /\ InitRawBinFile({<<1>>}, {0}, {None})
    /\ InitDirectories
    /\ InitBlobs
    /\ InitXML({[kind |-> "epochs", epochs |-> <<>>]})
    /\ InitReadBlock({1}, {4}, {0})
    /\ InitHeaders({"value_based"}, {250}, {1}, {1})
    /\ InitSignalBlocks({<<1>>}, {1}, {250})

NextWriters ==
    \E w \in Writers :
        \/ \E ext \in Exts, overwrite \in BOOLEAN : NewWriter(w, ext, overwrite)
        \/ AddXml(w, w)
        \/ AddBin(w, None, MaxBins - 1)
        \/ CreateDirectory(w)
        \/ Write(w)

SpecWriters == InitWriters /\ [][NextWriters]_vars

\* one Writer, the BinWriter it is given, and the compatibility gate
BinArrays == [dtype : {"float32"}, nc : {1}, ns : {1, 2}, fill : {100}]

InitBins ==
    /\ InitBinWriter({250, 2000000}, DataTypes)
    /\ InitWriter({NoFiles})
    /\ InitFilePart
    /\ InitRawBinFile({<<1>>}, {0}, {None})
    /\ InitDirectories
    /\ InitBlobs
    /\ InitXML({[kind |-> "epochs", epochs |-> <<>>]})
    /\ InitReadBlock({1}, {4}, {0})
    /\ InitHeaders({"value_based"}, {250}, {1}, {1})
    /\ InitSignalBlocks({<<1>>}, {1}, {250})

NextBins ==
    \/ \E d \in BinArrays, offset_us \in {None, Some(0)} :
            writes < MaxBlocks - 1 /\ AddBlock(d, offset_us)
    \/ NewWriter(1, ".mff", FALSE)
    \/ \E filename \in BinNames : AddBin(1, filename, MaxBins)
    \/ CreateDirectory(1)
    \/ Write(1)
    \/ \E v \in BOOLEAN : SetCompatible(v)
    \/ \E dt \in DataTypes : NewStreamingBinWriter(dt)

SpecBins == InitBins /\ [][NextBins]_vars

\* FileParts over the entries of one archive
InitFileParts ==
    /\ InitBinWriter({250}, {"EEG"})
    /\ InitWriter({NoFiles})
    /\ InitFilePart
    /\ InitRawBinFile({<<1>>}, {0}, {None})
    /\ InitDirectories
    /\ InitBlobs
    /\ InitXML({[kind |-> "epochs", epochs |-> <<>>]})
    /\ InitReadBlock({1}, {4}, {0})
    /\ InitHeaders({"value_based"}, {250}, {1}, {1})
    /\ InitSignalBlocks({<<1>>}, {1}, {250})

NextFileParts ==
    \E p \in FileParts :
        \/ \E entry \in Entries : Open(p, entry)
        \/ \E pos \in SeekPositions, whence \in Whences : Seek(p, pos, whence, MaxPos)
        \/ \E n \in ReadSizes : Read(p, n)
        \/ Close(p)

SpecFileParts == InitFileParts /\ [][NextFileParts]_vars

\* recordings as a reader finds them, each stored as a directory and as
\* an archive of the same files
EpochsDocs ==
    {File("epochs.xml", "xml", "epochs", 0, "", eps, <<>>) :
        eps \in {<<Epoch(0, 4000, 1, 1)>>,
                 <<Epoch(0, 4000, 1, 1), Epoch(5000, 9000, 2, 2)>>}}

SegmentLists == {<<>>, <<0>>, <<5>>, <<5, 0>>}
Cats == [name : {"a", "b"}, segments : SegmentLists]
CategoriesDocs ==
    {File("categories.xml", "xml", "categories", 0, "", cats, <<>>) :
        cats \in {<<c>> : c \in Cats}
                 \cup {<<c1, c2>> : c1 \in {c \in Cats : c.name = "b"}, c2 \in Cats}}

SignalFile(n) == File(default_filename(n), "bin", "", 0, "", <<>>, <<n>>)
InfoFile(n, dt) == File(default_info_filename(n), "xml", "dataInfo", 0, dt, <<>>, <<>>)
PlainEpochs == File("epochs.xml", "xml", "epochs", 0, "", <<Epoch(0, 4000, 1, 1)>>, <<>>)

Recordings ==
    {{e, c} : e \in EpochsDocs, c \in CategoriesDocs}
    \cup {{PlainEpochs},
          {PlainEpochs, File("info.xml", "xml", "fileInfo", 0, "", <<>>, <<>>)},
          {PlainEpochs, File("categories.xml", "xml", "fileInfo", 0, "", <<>>, <<>>)},
          {PlainEpochs, SignalFile(1)},
          {PlainEpochs, SignalFile(1), InfoFile(1, "EEG")},
          {SignalFile(1), InfoFile(1, "EEG"), SignalFile(2), InfoFile(2, "PNSData")}}

\* a recording on disk as a directory and as an archive of the same files
Stored(r) ==
    [mff |-> [exists |-> TRUE, files |-> r],
     mfz |-> [exists |-> TRUE, files |-> r], json |-> FALSE]

InitReaders ==
    /\ InitBinWriter({250}, {"EEG"})
    /\ InitWriter({Stored(r) : r \in Recordings})
    /\ InitFilePart
    /\ InitRawBinFile({<<1>>}, {0}, {None})
    /\ method \in CompressionMethods
    /\ directories = [k \in Kinds |-> NoDirectory]
    /\ dir_last = DirLast("", "", "", "", <<>>)
    /\ InitBlobs
    /\ InitXML({[kind |-> "epochs", epochs |-> <<>>]})
    /\ InitReadBlock({1}, {4}, {0})
    /\ InitHeaders({"value_based"}, {250}, {1}, {1})
    /\ InitSignalBlocks({<<1>>}, {1}, {250})

NextReaders ==
    \E kind \in Kinds :
        \/ \E listing \in Listings(Names(fs[kind].files)) : GetDirectory(kind, listing)
        \/ \E listing \in Listings(Names(fs[kind].files)) : Listdir(kind, listing)
        \/ \E basename \in {"epochs", "categories", "info", "info1", "signal1", "signal2"} :
                Filepointer(kind, basename)
        \/ SignalsWithInfo(kind)
        \/ ReaderEpochs(kind)

SpecReaders == InitReaders /\ [][NextReaders]_vars

\* one signal file and one call of read_raw_samples on it
MaxTime == 9
MaxDuration == 5
SampleCounts == {1, 2, 3}
SignalFiles == UNION {[1..n -> SampleCounts] : n \in 1..MaxBlocks}

InitSamples ==
    /\ InitBinWriter({250}, {"EEG"})
    /\ InitWriter({NoFiles})
    /\ InitFilePart
    /\ InitDirectories
    /\ InitBlobs
    /\ InitXML({[kind |-> "epochs", epochs |-> <<>>]})
    /\ InitReadBlock({1}, {4}, {0})
    /\ InitHeaders({"value_based"}, {250}, {1}, {1})
    /\ InitSignalBlocks({<<1>>}, {1}, {250})
    /\ InitRawBinFile(SignalFiles, 0..MaxTime,
                      {None} \cup {Some(dt) : dt \in 0..MaxDuration})

NextSamples == ReadRawSamples

SpecSamples == InitSamples /\ [][NextSamples]_vars

\* BinWriters constructed from any sampling_rate argument, and the blocks
\* added to them
RateArguments ==
    {IntRate(v) : v \in {-250, 0, 100, 16777216}} \cup {FloatRate(100)}

InitRates ==
    /\ InitBinWriter({250}, {"EEG"})
    /\ InitWriter({NoFiles})
    /\ InitFilePart
    /\ InitRawBinFile({<<1>>}, {0}, {None})
    /\ InitDirectories
    /\ InitBlobs
    /\ InitXML({[kind |-> "epochs", epochs |-> <<>>]})
    /\ InitReadBlock({1}, {4}, {0})
    /\ InitHeaders({"value_based"}, {250}, {1}, {1})
    /\ InitSignalBlocks({<<1>>}, {1}, {250})

NextRates ==
    \/ \E sr \in RateArguments, dt \in DataTypes : NewBinWriter(sr, dt)
    \/ \E d \in BinArrays, offset_us \in {None, Some(0)} :
            writes < MaxBlocks - 1 /\ AddBlock(d, offset_us)

SpecRates == InitRates /\ [][NextRates]_vars

\* Readers over a recording with two signal files, stored as a
\* directory and as an archive, and the settings made on them
UnitArguments == {"mV", "A"}
CalibrationArguments == {"ICAL", "XCAL"}
UnitRecordings ==
    {{PlainEpochs, SignalFile(1), InfoFile(1, "EEG"), SignalFile(2), InfoFile(2, "PNSData")}}

InitUnits ==
    /\ InitBinWriter({250}, {"EEG"})
    /\ InitWriter({Stored(r) : r \in UnitRecordings})
    /\ InitFilePart
    /\ InitRawBinFile({<<1>>}, {0}, {None})
    /\ method = ZIP_STORED
    /\ directories =
            [k \in Kinds |->
                get_directory(fs, k, CHOOSE listing \in Listings(Names(fs[k].files)) :
                                        listing[1] = "epochs.xml").directory]
    /\ dir_last = DirLast("", "", "", "", <<>>)
    /\ InitBlobs
    /\ InitXML({[kind |-> "epochs", epochs |-> <<>>]})
    /\ InitReadBlock({1}, {4}, {0})
    /\ InitHeaders({"value_based"}, {250}, {1}, {1})
    /\ InitSignalBlocks({<<1>>}, {1}, {250})

NextUnits ==
    \E kind \in Kinds :
        \/ \E t \in DataTypes, unit \in UnitArguments : SetUnit(kind, t, unit)
        \/ \E t \in DataTypes, cal \in CalibrationArguments : SetCalibration(kind, t, cal)
        \/ Units(kind)
        \/ GetPhysicalSamples(kind)

SpecUnits == InitUnits /\ [][NextUnits]_vars

\* documents of the kinds that are built from keyword arguments, and the
\* kinds that have no builder
MaxEpochs == 2
DateTimes ==
    {DateTime(local, utcoffset) :
        local \in {0, 1, 2}, utcoffset \in {None, Some(-480), Some(-30), Some(0), Some(330)}}
Filter1 == [beginTime |-> "0", method |-> "Hardware", type |-> "highpass",
            cutoffFrequency |-> "0.1"]
Filter2 == [beginTime |-> "0", method |-> "Hardware", type |-> "lowpass",
            cutoffFrequency |-> "400"]
DocumentEpochs == {Epoch(0, 4000, 1, 1), Epoch(5000, 216000, 2, 12), Epoch(300000, 300100, 13, 13)}
Documents ==
    {[kind |-> "fileInfo", recordTime |-> t, mffVersion |-> "3"] : t \in DateTimes}
    \cup {[kind |-> "patient", name |-> n, data |-> d] :
            n \in {"age", "name", "id"}, d \in {"33", "x", "7"}}
    \cup {[kind |-> "dataInfo", fileDataType |-> t, dataTypeProps |-> ps, filters |-> fs_] :
            t \in DataTypes,
            ps \in {<<>>, <<Item("sensorLayoutName", "HydroCel GSN 256 1.0")>>,
                    <<Item("sensorLayoutName", "x"), Item("montageName", "y")>>},
            fs_ \in {<<>>, <<Filter1>>, <<Filter1, Filter2>>}}
    \cup {[kind |-> "epochs", epochs |-> eps] :
            eps \in UNION {[1..n -> DocumentEpochs] : n \in 0..MaxEpochs}}
    \cup {[kind |-> k] : k \in {"sensorLayout", "coordinates", "dipoleSet"}}

InitXMLs ==
    /\ InitBinWriter({250}, {"EEG"})
    /\ InitWriter({NoFiles})
    /\ InitFilePart
    /\ InitRawBinFile({<<1>>}, {0}, {None})
    /\ InitDirectories
    /\ InitBlobs
    /\ InitXML(Documents)
    /\ InitReadBlock({1}, {4}, {0})
    /\ InitHeaders({"value_based"}, {250}, {1}, {1})
    /\ InitSignalBlocks({<<1>>}, {1}, {250})

NextXMLs == RoundTrip

SpecXMLs == InitXMLs /\ [][NextXMLs]_vars

\* blocks of any declared size read from files that may end early
BlockChannels == 1..3
BlockSizes == 4..28
BlockShorts == 0..2

InitBlocks ==
    /\ InitBinWriter({250}, {"EEG"})
    /\ InitWriter({NoFiles})
    /\ InitFilePart
    /\ InitRawBinFile({<<1>>}, {0}, {None})
    /\ InitDirectories
    /\ InitBlobs
    /\ InitXML({[kind |-> "epochs", epochs |-> <<>>]})
    /\ InitReadBlock(BlockChannels, BlockSizes, BlockShorts)
    /\ InitHeaders({"value_based"}, {250}, {1}, {1})
    /\ InitSignalBlocks({<<1>>}, {1}, {250})

NextBlocks == ReadBlock

SpecBlocks == InitBlocks /\ [][NextBlocks]_vars

\* signal files of up to MaxBlocks blocks, flagged 1 or 0, walked by
\* signal_blocks
BlockFiles == UNION {[1..n -> {ReusedSamples, 1, 2}] : n \in 1..MaxBlocks}

InitWalks ==
    /\ InitBinWriter({250}, {"EEG"})
    /\ InitWriter({NoFiles})
    /\ InitFilePart
    /\ InitRawBinFile({<<1>>}, {0}, {None})
    /\ InitDirectories
    /\ InitBlobs
    /\ InitXML({[kind |-> "epochs", epochs |-> <<>>]})
    /\ InitReadBlock({1}, {4}, {0})
    /\ InitHeaders({"value_based"}, {250}, {1}, {1})
    /\ InitSignalBlocks(BlockFiles, {1, 2}, {250})

NextWalks == SignalBlocks

SpecWalks == InitWalks /\ [][NextWalks]_vars

\* headers of any rate an int can hold, written and read back under
\* either numpy
HeaderRates ==
    {0, 1, 250, 65536, 8388607, 8388608, 8388609, 16777215, 16777216, 16777217}

InitHeaderBlocks ==
    /\ InitBinWriter({250}, {"EEG"})
    /\ InitWriter({NoFiles})
    /\ InitFilePart
    /\ InitRawBinFile({<<1>>}, {0}, {None})
    /\ InitDirectories
    /\ InitBlobs
    /\ InitXML({[kind |-> "epochs", epochs |-> <<>>]})
    /\ InitReadBlock({1}, {4}, {0})
    /\ InitHeaders(NumpyCastings, HeaderRates, {1, 2}, {1, 2, 3})
    /\ InitSignalBlocks({<<1>>}, {1}, {250})

NextHeaderBlocks == HeaderRoundTrip

SpecHeaderBlocks == InitHeaderBlocks /\ [][NextHeaderBlocks]_vars

\* ------------------------------------------------------------------ claims
Accepted == bw_last.op = "add_block" /\ bw_last.result = "ok"

\* the duration of the block of the last call, in microseconds
LastDuration == TruncDiv(1000000 * bw_last.num_samples, sampling_rate)

C2_NoneExtendsIntStartsEpoch ==
    Accepted =>
        LET pre == bw_last.epochs
            off == bw_last.offset_us
        IN  IF Len(pre) = 0
            THEN LET o == IF IsNone(off) THEN 0 ELSE Val(off)
                 IN  epochs = <<[beginTime |-> o, endTime |-> o + LastDuration,
                                 firstBlock |-> 1, lastBlock |-> 1]>>
            ELSE IF IsNone(off)
            THEN /\ Len(epochs) = Len(pre)
                 /\ Front(epochs) = Front(pre)
                 /\ Last(epochs) =
                        [beginTime |-> Last(pre).beginTime,
                         endTime |-> Last(pre).endTime + LastDuration,
                         firstBlock |-> Last(pre).firstBlock,
                         lastBlock |-> Last(pre).lastBlock + 1]
            ELSE Len(epochs) = Len(pre) + 1

\* a block with offset_us = None was accepted after a block with
\* offset_us = 0 had started the second epoch
C2_Witness ==
    /\ Accepted
    /\ IsNone(bw_last.offset_us)
    /\ Len(bw_last.epochs) = 2
    /\ Last(bw_last.epochs).beginTime = bw_last.epochs[1].endTime
    /\ Last(bw_last.epochs).firstBlock = Last(bw_last.epochs).lastBlock
    /\ LastDuration > 0
    /\ Len(epochs) = 2

\* C3: an accepted call with an integer offset_us on a writer that holds an
\* epoch appends one epoch that begins offset_us after the end of the
\* previous one, holds the next block alone, and leaves the earlier epochs
\* as they were
C3_NewEpochAfterPrevious ==
    (Accepted /\ ~IsNone(bw_last.offset_us) /\ Len(bw_last.epochs) > 0) =>
        LET pre == bw_last.epochs
        IN  /\ Len(epochs) = Len(pre) + 1
            /\ SubSeq(epochs, 1, Len(pre)) = pre
            /\ Last(epochs).beginTime = Last(pre).endTime + Val(bw_last.offset_us)
            /\ Last(epochs).firstBlock = Last(pre).lastBlock + 1
            /\ Last(epochs).lastBlock = Last(pre).lastBlock + 1

\* add_block(X, None) then add_block(Y, 100000): two epochs
C3_Witness ==
    /\ Accepted
    /\ bw_last.offset_us = Some(100000)
    /\ Len(bw_last.epochs) = 1
    /\ bw_last.epochs[1].endTime > 0
    /\ Len(epochs) = 2
    /\ epochs[2].beginTime = epochs[1].endTime + 100000

\* C5: add_block with a negative offset_us raises ValueError and leaves the
\* stream, the header and the epochs as they were
C5_NegativeOffsetRejected ==
    (bw_last.op = "add_block" /\ ~IsNone(bw_last.offset_us)
        /\ Val(bw_last.offset_us) < 0) =>
        /\ bw_last.result = "ValueError"
        /\ stream = bw_last.stream
        /\ header = bw_last.header
        /\ epochs = bw_last.epochs

\* a negative offset_us was rejected by a writer that holds blocks
C5_Witness ==
    /\ bw_last.op = "add_block"
    /\ bw_last.offset_us = Some(-1)
    /\ bw_last.result = "ValueError"
    /\ Len(epochs) = 2
    /\ Len(stream) > 0

\* C7: constructing a Writer without overwrite fails if the target path
\* exists, and for an .mfz target also if <base>.mff exists; with overwrite
\* the construction succeeds in both cases
C7_ExistingTargetNeedsOverwrite ==
    (w_last.op = "Writer" /\ w_last.ext \in {".mff", ".mfz", ".json"}) =>
        LET pre == w_last.fs
            target == CASE w_last.ext = ".mff" -> pre.mff.exists
                        [] w_last.ext = ".mfz" -> pre.mfz.exists
                        [] w_last.ext = ".json" -> pre.json
            taken == target \/ (w_last.ext = ".mfz" /\ pre.mff.exists)
            made == /\ w_last.result = "ok"
                    /\ writers[w_last.w].made
                    /\ writers[w_last.w].ext = w_last.ext
                    /\ writers[w_last.w].overwrite = w_last.overwrite
        IN  /\ (~w_last.overwrite /\ taken) =>
                (w_last.result = "AssertionError" /\ ~writers[w_last.w].made)
            /\ (~w_last.overwrite /\ ~taken) => made
            /\ w_last.overwrite => made
            /\ fs = pre

\* a Writer for <base>.mfz was refused because of a directory <base>.mff
\* that another Writer had written
C7_Witness ==
    /\ w_last.op = "Writer"
    /\ w_last.ext = ".mfz"
    /\ ~w_last.overwrite
    /\ w_last.fs.mff.exists
    /\ \E f \in w_last.fs.mff.files : f.recordTime \in Writers
    /\ ~w_last.fs.mfz.exists
    /\ w_last.result = "AssertionError"

\* the files a Writer would put on disk now
Registered(w) == {OnDisk(x) : x \in writers[w].files}

OverwritingWrite ==
    /\ w_last.op = "write"
    /\ w_last.result = "ok"
    /\ w_last.overwrite
    /\ w_last.ext \in {".mff", ".mfz"}
    /\ exists(w_last.fs, w_last.ext)

OnlyRegisteredLeft ==
    /\ fs.mff.exists
    /\ fs.mff.files = Registered(w_last.w)
    /\ w_last.ext = ".mfz" => (fs.mfz.exists /\ fs.mfz.files = Registered(w_last.w))

C4_EpochSamplesMatchDuration ==
    \A e \in fs.mff.files, b \in fs.mff.files :
        (e.name = "epochs.xml" /\ b.kind = "bin" /\ signal_blocks(b.words).ok) =>
            LET sb == signal_blocks(b.words)
            IN  \A i \in 1..Len(e.epochs) :
                    LET E == e.epochs[i]
                    IN  E.lastBlock <= sb.n_blocks =>
                            SumFrom(sb.num_samples, E.firstBlock, E.lastBlock)
                            = Round((E.endTime - E.beginTime) * sb.sampling_rate, 1000000)

\* C6: addbin raises the incompatibility error whenever the pair of the bin
\* filename and the data type is not a typical one while _compatible is
\* set, and accepts the call otherwise; constructing a StreamingBinWriter
\* does the same for signal1.bin
C6_CompatibilityGate ==
    /\ w_last.op = "addbin" =>
        LET n == w_last.writer.num_bin_files + 1
            binname == IF w_last.filename # None THEN w_last.filename[1]
                       ELSE default_filename(n)
            typical == \/ (binname = "signal1.bin" /\ w_last.data_type = "EEG")
                       \/ (binname = "signal2.bin" /\ w_last.data_type = "PNSData")
        IN  IF w_last.compatible /\ ~typical
            THEN /\ w_last.result = "ValueError"
                 /\ writers[w_last.w].files = w_last.writer.files
            ELSE /\ w_last.result = "ok"
                 /\ \E f \in writers[w_last.w].files : f.name = binname /\ f.kind = "bin"
    /\ w_last.op = "StreamingBinWriter" =>
        (w_last.result = "ValueError"
            <=> (w_last.compatible /\ w_last.data_type # "EEG"))

\* a PNSData writer was refused as the first bin and, with _compatible
\* cleared, accepted as signal1.bin
C6_Witness ==
    /\ w_last.op = "addbin"
    /\ w_last.data_type = "PNSData"
    /\ w_last.result = "ok"
    /\ ~w_last.compatible
    /\ w_last.writer.num_bin_files = 1
    /\ w_last.writer.files = {}
    /\ \E f \in writers[w_last.w].files : f.name = "signal1.bin"

\* C9: read(n) returns at most byte_end - cursor bytes, only bytes lying
\* inside [byte_start, byte_end) of the archive file, and read(-1) returns
\* exactly the bytes from the cursor to byte_end
C9_ReadConfinedToPart ==
    (fp_last.op = "read" /\ ~fp_last.part.closed) =>
        LET part == fp_last.part
            inside == [i \in 1..(IF part.end > part.pos /\ part.pos >= part.start
                                 THEN part.end - part.pos ELSE 0)
                          |-> Archive[part.pos + i]]
        IN  /\ fp_last.result = "ok"
            /\ Len(fp_last.data) <= Len(inside)
            /\ fp_last.data = SubSeq(inside, 1, Len(fp_last.data))
            /\ fp_last.n = -1 => fp_last.data = inside

\* C10: tell() is the cursor offset relative to byte_start: 0 right after
\* open, p after seek(p, 0), grown by p after seek(p, 1), (byte_end -
\* byte_start) + p after seek(p, 2); a whence outside {0, 1, 2} raises
\* ValueError and leaves the cursor where it was
C10_TellRelativeToStart ==
    LET now == fileparts[fp_last.p]
        was == fp_last.part
    IN  /\ fp_last.op = "open" => FilePart_tell(now) = 0
        /\ (fp_last.op = "seek" /\ fp_last.result = "ok") =>
            /\ fp_last.whence = 0 => FilePart_tell(now) = fp_last.n
            /\ fp_last.whence = 1 => FilePart_tell(now) = FilePart_tell(was) + fp_last.n
            /\ fp_last.whence = 2 => FilePart_tell(now) = (now.end - now.start) + fp_last.n
        /\ (fp_last.op = "seek" /\ fp_last.whence \notin {0, 1, 2}) =>
            /\ fp_last.result = "ValueError"
            /\ now.pos = was.pos

\* a seek from the end of an entry that does not end the archive, after
\* the cursor had moved
C10_Witness ==
    /\ fp_last.op = "seek"
    /\ fp_last.result = "ok"
    /\ fp_last.whence = 2
    /\ fp_last.n = -1
    /\ fp_last.part.pos # fp_last.part.start
    /\ fileparts[fp_last.p].end < ArchiveSize
    /\ FilePart_tell(fileparts[fp_last.p]) = 1

\* C11: an operation on one FilePart leaves the tell() position, the range
\* and the open state of every other FilePart of the same archive as they
\* were, and the bytes a read returns are those of the reading FilePart's
\* own cursor
C11_FilePartsIndependent ==
    /\ \A q \in FileParts \ {fp_last.p} : Cursor(q) = fp_last.parts[q]
    /\ (fp_last.op = "read" /\ fp_last.result = "ok") =>
            fp_last.data = FilePart_read(fp_last.parts[fp_last.p], fp_last.n).data

\* a read on one FilePart while another FilePart over the same entry is
\* open with its cursor elsewhere, and a close next to an open FilePart
C11_Witness ==
    \E q \in FileParts \ {fp_last.p} :
        /\ fp_last.op = "read"
        /\ Len(fp_last.data) > 0
        /\ Cursor(q).made /\ ~Cursor(q).closed
        /\ Cursor(q).start = fp_last.part.start
        /\ Cursor(q).pos # Cursor(q).start
        /\ Cursor(q).pos # fp_last.part.pos

\* C12: constructing the archive container over an archive whose entries
\* have a compression method other than 0 fails, so no container (and no
\* FilePart) is served over compressed entry bytes
C12_CompressedArchiveRejected ==
    /\ (dir_last.op = "get_directory" /\ dir_last.kind = "mfz" /\ method # 0) =>
            dir_last.result = "AssertionError"
    /\ directories["mfz"].made => method = 0

SeqSet(s) == {s[i] : i \in DOMAIN s}

C17_EpochsWithoutCategories ==
    (/\ dir_last.op = "epochs"
     /\ "epochs.xml" \in Names(fs[dir_last.kind].files)
     /\ "categories.xml" \notin Names(fs[dir_last.kind].files)
     /\ dir_last.kind = "mfz" => method = 0) =>
        /\ dir_last.result = "ok"
        /\ Len(dir_last.value) > 0
        /\ \A i \in DOMAIN dir_last.value : dir_last.value[i].name = "epoch"

\* the orders of the places 1..n
Orders(n) == {p \in [1..n -> 1..n] : \A i, j \in 1..n : i # j => p[i] # p[j]}

\* C18: with the category segments sorted by beginTime, the i-th epoch gets
\* the category name of the i-th segment if there are as many segments as
\* epochs; otherwise every epoch stays "epoch"; the operation does not fail
C18_CategoriesNameEpochs ==
    (/\ dir_last.op = "epochs"
     /\ dir_last.kind = "mfz" => method = 0
     /\ \E c \in fs[dir_last.kind].files : c.name = "categories.xml" /\ c.doc = "categories"
     /\ "epochs.xml" \in Names(fs[dir_last.kind].files)) =>
        LET blocks == category_blocks(parse_categories(
                            FileNamed(fs[dir_last.kind].files, "categories.xml").epochs))
            eps == FileNamed(fs[dir_last.kind].files, "epochs.xml").epochs
            named == dir_last.value
        IN  /\ dir_last.result = "ok"
            /\ Len(named) = Len(eps)
            /\ \A i \in DOMAIN named : named[i].epoch = eps[i]
            /\ IF Len(blocks) = Len(eps)
               THEN \E p \in Orders(Len(blocks)) :
                        /\ \A i, j \in 1..Len(blocks) :
                                i < j => blocks[p[i]].t0 <= blocks[p[j]].t0
                        /\ \A i \in 1..Len(blocks) : named[i].name = blocks[p[i]].category
               ELSE \A i \in DOMAIN named : named[i].name = "epoch"

\* two epochs named after two categories whose document order is the
\* reverse of their time order
C18_Witness ==
    /\ dir_last.op = "epochs"
    /\ dir_last.result = "ok"
    /\ Len(dir_last.value) = 2
    /\ dir_last.value[1].name = "a"
    /\ dir_last.value[2].name = "b"
    /\ \E c \in fs[dir_last.kind].files :
            /\ c.name = "categories.xml" /\ c.doc = "categories"
            /\ Len(c.epochs) = 2
            /\ c.epochs[1] = [name |-> "b", segments |-> <<5>>]

\* the read_raw_samples call that ran, its window in samples, its slice
SamplesRead == rs_last.op = "read_raw_samples" /\ ~IsNone(rs_last.dt)
WindowStart == sample_index(rs_last.t0)
WindowEnd == sample_index(rs_last.t0 + Val(rs_last.dt))
SliceStart == IF IsNone(rs_last.block_slice) THEN 0 ELSE Val(rs_last.block_slice).start
SliceStop ==
    IF IsNone(rs_last.block_slice) THEN Len(block_samples)
    ELSE Val(rs_last.block_slice).stop
SliceSamples == SumFrom(block_samples, SliceStart + 1, SliceStop)

\* the column at place p (0-based) of the blocks of the slice laid side by
\* side: the block it lies in and its place in that block
ColumnAt(p) ==
    CHOOSE c \in (SliceStart..(SliceStop - 1)) \X (0..p) :
        /\ c[2] < block_samples[c[1] + 1]
        /\ SumFrom(block_samples, SliceStart + 1, c[1]) + c[2] = p

\* C14: for t0 >= 0 and dt > 0 with a = round(t0*sr) < b = round((t0+dt)*sr),
\* read_raw_samples returns exactly the columns [a, min(b, N)) of the blocks
\* of block_slice laid side by side (N the samples in the slice): nothing
\* from a block outside the slice, no gap, no duplicate, and from a = a block
\* boundary the next block's first sample.
C14_ReadReturnsWindow ==
    (SamplesRead /\ WindowStart < WindowEnd) =>
        /\ rs_last.result = "ok"
        /\ Len(rs_last.data) =
                IF Min(WindowEnd, SliceSamples) > WindowStart
                THEN Min(WindowEnd, SliceSamples) - WindowStart ELSE 0
        /\ \A k \in 1..Len(rs_last.data) :
                rs_last.data[k] = ColumnAt(WindowStart + k - 1)

\* a window that starts on the boundary between the first two blocks and
\* runs over the second block into the third
C14_Witness ==
    /\ SamplesRead
    /\ block_samples = <<1, 2, 1>>
    /\ rs_last.block_slice = None
    /\ rs_last.t0 = 2 /\ rs_last.dt = Some(5)
    /\ rs_last.data = << <<1, 0>>, <<1, 1>>, <<2, 0>> >>

\* C15: a window shorter than one sample interval (round(t0*sr) =
\* round((t0+dt)*sr)) is served for every t0 >= 0, t0 = 0 and t0 on a block
\* boundary included: the call returns an array of zero columns.
C15_ShortWindowReturnsEmpty ==
    (SamplesRead /\ WindowStart = WindowEnd) =>
        rs_last.result = "ok" /\ rs_last.data = <<>>

\* C20: constructing a BinWriter fails unless sampling_rate is an int that
\* is non-negative and fits in 24 bits; a float such as 100.0 is rejected
\* with an AssertionError.
C20_ConstructionChecksRate ==
    init_last.result = "ok" =>
        /\ init_last.sampling_rate.int
        /\ init_last.sampling_rate.value >= 0
        /\ init_last.sampling_rate.value < 16777216

\* C16: after set_unit(channel_type, unit) or set_calibration(channel_type,
\* name) has returned, the setting stays on that Reader: units reports the
\* unit set for the channel type, and get_physical_samples is served by a
\* BinFile that holds the unit and the calibration set.
C16_SettingsPersist ==
    /\ (dir_last.op = "units" /\ dir_last.result = "ok") =>
            \A t \in DataTypes :
                ~IsNone(configured[dir_last.kind][t].unit) =>
                    <<t, Val(configured[dir_last.kind][t].unit)>> \in dir_last.value
    /\ (dir_last.op = "get_physical_samples" /\ dir_last.result = "ok") =>
            \A x \in dir_last.value :
                /\ ~IsNone(configured[dir_last.kind][x.signal_type].unit) =>
                        x.unit = Val(configured[dir_last.kind][x.signal_type].unit)
                /\ ~IsNone(configured[dir_last.kind][x.signal_type].calibration) =>
                        x.calibration = Val(configured[dir_last.kind][x.signal_type].calibration)

\* the typed fields a document built from the input D has
TextOf(x) == Some(Chars(x))
FieldsOf(D) ==
    IF D.kind = "fileInfo"
    THEN [mffVersion |-> TextOf(D.mffVersion), recordTime |-> Some(D.recordTime)]
    ELSE IF D.kind = "patient" THEN {<<TextOf(D.name), TextOf(D.data)>>}
    ELSE IF D.kind = "dataInfo"
    THEN [generalInformation |->
            [channel_type |-> D.fileDataType,
             props |-> [i \in 1..Len(D.dataTypeProps) |->
                            Item(D.dataTypeProps[i].k, TextOf(D.dataTypeProps[i].v))]],
          filters |-> [i \in 1..Len(D.filters) |->
                            [beginTime |-> TextOf(D.filters[i].beginTime),
                             method |-> TextOf(D.filters[i].method),
                             type |-> TextOf(D.filters[i].type),
                             cutoffFrequency |-> TextOf(D.filters[i].cutoffFrequency)]]]
    ELSE IF D.kind = "epochs"
    THEN [i \in 1..Len(D.epochs) |->
            <<Item("beginTime", D.epochs[i].beginTime), Item("endTime", D.epochs[i].endTime),
              Item("firstBlock", D.epochs[i].firstBlock),
              Item("lastBlock", D.epochs[i].lastBlock)>>]
    ELSE <<>>

\* a document whose timestamps carry a timezone
WellFormed(D) == D.kind = "fileInfo" => ~IsNone(D.recordTime.utcoffset)

\* C19: for every supported document kind, building the document with
\* todict and dict2xml, writing it out and reading it back with from_file
\* yields a document of the same kind whose typed fields equal the input,
\* the UTC offset of timestamps included.
C19_ParseEmitRoundTrip ==
    (xml_last.op = "parse_emit" /\ WellFormed(xml_last.input)) =>
        /\ xml_last.result = "ok"
        /\ xml_last.kind = xml_last.input.kind
        /\ xml_last.fields = FieldsOf(xml_last.input)

\* C21: a block payload 1 to 4 bytes longer than 4 * C * N is truncated to
\* the C x N samples with a warning; any other mismatch between the payload
\* length and the shape fails
Excess == Len(rb_last.buf) - 4 * rb_last.num_channels * rb_last.num_samples

FirstSamples ==
    reshape(np_frombuffer(SubSeq(rb_last.buf, 1,
                                 4 * rb_last.num_channels * rb_last.num_samples)).data,
            rb_last.num_channels).data

C21_ExcessBytesTruncated ==
    rb_last.op = "read_block" =>
        /\ Excess \in 1..4 =>
              /\ rb_last.result = "ok"
              /\ rb_last.warned
              /\ rb_last.data = FirstSamples
        /\ Excess \notin 0..4 => rb_last.result # "ok"

\* C22: an add_block call that fails, for whatever reason, leaves the
\* writer's stream, header and epochs exactly as they were before the call
C22_FailedAddBlockLeavesState ==
    (bw_last.op = "add_block" /\ bw_last.result # "ok") =>
        /\ stream = bw_last.stream
        /\ header = bw_last.header
        /\ epochs = bw_last.epochs

\* C23: an addbin call rejected by the compatibility gate leaves the
\* Writer's bin counter and registered files unchanged, so a following
\* addbin of an EEG BinWriter under the default name on a Writer without
\* registered files registers signal1.bin, info1.xml and epochs.xml
C23_RejectedAddBinLeavesWriter ==
    w_last.op = "addbin" =>
        /\ w_last.result = "ValueError" =>
              /\ writers[w_last.w].num_bin_files = w_last.writer.num_bin_files
              /\ writers[w_last.w].files = w_last.writer.files
        /\ (/\ w_last.filename = None
            /\ w_last.data_type = "EEG"
            /\ w_last.writer.files = {}) =>
              /\ w_last.result = "ok"
              /\ Names(writers[w_last.w].files) = {"signal1.bin", "info1.xml", "epochs.xml"}

\* C24: after any addbin calls every registered signal<N>.bin has its
\* info<N>.xml registered with the same N, so the registered files pass
\* the container's check
C24_BinsPairedWithInfo ==
    \A w \in Writers :
        /\ \A f \in writers[w].files :
              f.kind = "bin" =>
                 default_info_filename(Val(NameParts(f.name).num))
                    \in Names(writers[w].files)
        /\ \A listing \in Listings(Names(writers[w].files)) :
              _check("mff", listing, files_by_type(listing, ".bin")) = "ok"

\* C25: after accepted add_block calls every epoch of the writer ends
\* after it begins and its first block is not after its last block
C25_EpochsWellFormed ==
    \A i \in DOMAIN epochs :
        /\ epochs[i].endTime > epochs[i].beginTime
        /\ epochs[i].firstBlock <= epochs[i].lastBlock

\* the integers nearest to t / Halves, and among them the one a tie is
\* rounded to: the even one, or the one away from zero
Nearest(t) == {k \in 0..(t + 1) : 2 * Abs(Halves * k - t) <= Halves}
NearestEven(t) == CHOOSE k \in Nearest(t) : Cardinality(Nearest(t)) > 1 => k % 2 = 0
NearestAway(t) == CHOOSE k \in Nearest(t) : \A j \in Nearest(t) : j <= k

\* the call returned the columns [a, b) of the slice and a / sr as start time
ReturnedWindow(a, b) ==
    /\ rs_last.time_of_first_sample = Halves * a
    /\ Len(rs_last.data) = IF Min(b, SliceSamples) > a THEN Min(b, SliceSamples) - a ELSE 0
    /\ \A k \in 1..Len(rs_last.data) : rs_last.data[k] = ColumnAt(a + k - 1)

\* C26 as stated: read_raw_samples rounds t0 * sr and (t0 + dt) * sr to the
\* nearest integer with ties away from zero, and returns a / sr as start time
C26_RoundsHalfAwayFromZero ==
    (SamplesRead /\ rs_last.result = "ok") =>
        ReturnedWindow(NearestAway(rs_last.t0), NearestAway(rs_last.t0 + Val(rs_last.dt)))

\* C26: read_raw_samples rounds t0 * sr and (t0 + dt) * sr to the nearest
\* integer with ties to the even integer (a = round(t0 * sr),
\* b = round((t0 + dt) * sr)), and returns a / sr as start time
C26_RoundsHalfToEven ==
    (SamplesRead /\ rs_last.result = "ok") =>
        ReturnedWindow(NearestEven(rs_last.t0), NearestEven(rs_last.t0 + Val(rs_last.dt)))

\* t0 * sr = 2.5 and (t0 + dt) * sr = 3.5: the samples 2 and 3 are returned
C26_Witness ==
    /\ SamplesRead
    /\ rs_last.result = "ok"
    /\ block_samples = <<1, 2, 1>>
    /\ rs_last.block_slice = None
    /\ rs_last.t0 = 5 /\ rs_last.dt = Some(2)
    /\ rs_last.time_of_first_sample = 4
    /\ rs_last.data = << <<1, 1>>, <<2, 0>> >>

\* the byte position at which block i of the walked file starts
BlockStart(i) ==
    4 * Len(file_words(SubSeq(sb_last.blocks, 1, i - 1), sb_last.num_channels,
                       sb_last.rate, 1))

\* the block whose header block i carries or reuses, if there is one
HeaderOf(i) ==
    CHOOSE j \in 1..i :
        /\ sb_last.blocks[j] # ReusedSamples
        /\ \A k \in (j + 1)..i : sb_last.blocks[k] = ReusedSamples

\* C27: signal_blocks gives every block flagged 0 the num_samples,
\* header_size and block_size of the most recent header before it and
\* places its payload right after the 4-byte flag; a block flagged 0 that
\* no header precedes makes the walk fail, and no catalog is produced
C27_ReusedHeaderInherited ==
    sb_last.op = "signal_blocks" =>
        IF sb_last.blocks[1] = ReusedSamples
        THEN ~sb_last.catalog.ok /\ sb_last.catalog.data = <<>>
        ELSE /\ sb_last.catalog.ok
             /\ sb_last.catalog.n_blocks = Len(sb_last.blocks)
             /\ \A i \in 1..Len(sb_last.blocks) :
                    sb_last.blocks[i] = ReusedSamples =>
                        /\ sb_last.catalog.num_samples[i] = sb_last.blocks[HeaderOf(i)]
                        /\ sb_last.catalog.header_sizes[i] =
                                sb_last.catalog.header_sizes[HeaderOf(i)]
                        /\ sb_last.catalog.header_sizes[i] =
                                compute_byte_size(sb_last.num_channels, 0)
                        /\ sb_last.catalog.data[i].byte_size =
                                4 * sb_last.num_channels * sb_last.blocks[HeaderOf(i)]
                        /\ sb_last.catalog.data[i].byte_offset = BlockStart(i) + 4
                        /\ BlockWords(sb_last.words, sb_last.catalog.data[i]) =
                                payload_of(sb_last.blocks, sb_last.num_channels, i)

\* a header of two samples and two blocks that reuse it
C27_Witness ==
    /\ sb_last.op = "signal_blocks"
    /\ sb_last.blocks = <<2, 0, 0>>
    /\ sb_last.num_channels = 2
    /\ sb_last.catalog.ok
    /\ sb_last.catalog.num_samples = <<2, 2, 2>>
    /\ sb_last.catalog.data[3].byte_size = 16

\* C28: a header written with a rate 0 <= r < 2^24 (depth 32) is read back
\* by HeaderBlock.from_file and by the indexer with depth 32 and
\* sampling_rate exactly r; a rate >= 2^24 is rejected on encode
C28_RateRoundTrip ==
    hb_last.op = "round_trip" =>
        IF hb_last.rate < 16777216
        THEN /\ hb_last.written.ok
             /\ hb_last.from_file.ok
             /\ hb_last.from_file.depth = 32
             /\ Val(hb_last.from_file.hdr).sampling_rate = hb_last.rate
             /\ hb_last.indexed.ok
             /\ Val(hb_last.indexed.hdr).sampling_rate = hb_last.rate
        ELSE ~hb_last.written.ok

\* C29: after accepted add_block calls the epochs partition the written
\* blocks in order: the first epoch starts at block 1, each later epoch
\* starts at the block after the previous epoch's last, the last epoch
\* ends at the number of blocks written to the stream, and no epoch begins
\* before the previous one ends
C29_EpochsPartitionBlocks ==
    Len(epochs) > 0 =>
        /\ epochs[1].firstBlock = 1
        /\ \A i \in 2..Len(epochs) :
                /\ epochs[i].firstBlock = epochs[i - 1].lastBlock + 1
                /\ epochs[i].beginTime >= epochs[i - 1].endTime
        /\ Last(epochs).lastBlock = Len(appended)

\* two blocks in a first epoch and a third block that starts a second one
C29_Witness ==
    /\ Accepted
    /\ Len(appended) = 3
    /\ Len(epochs) = 2
    /\ epochs[1].firstBlock = 1 /\ epochs[1].lastBlock = 2
    /\ epochs[2].firstBlock = 3 /\ epochs[2].lastBlock = 3
    /\ epochs[2].beginTime > epochs[1].endTime

\* the file of that name that the last write() put into the directory
Emitted(name) == CHOOSE f \in fs.mff.files : f.name = name

\* the number of blocks in the signal file of those words
BlocksIn(words) == IF words = <<>> THEN 0 ELSE signal_blocks(words).n_blocks

\* C30: whatever the order of add_block, addbin and write, the epochs.xml
\* that write() emits describes exactly the blocks that write() emits to
\* signal1.bin, blocks appended after addbin included
C30_EpochsDescribeWrittenBlocks ==
    (/\ w_last.op = "write" /\ w_last.result = "ok"
     /\ {"signal1.bin", "epochs.xml"} \subseteq Names(writers[w_last.w].files)) =>
        /\ Emitted("epochs.xml").epochs = epochs
        /\ BlocksIn(Emitted("signal1.bin").words) =
                IF Emitted("epochs.xml").epochs = <<>> THEN 0
                ELSE Last(Emitted("epochs.xml").epochs).lastBlock

====
